---- MODULE Spec2Model ----
(***************************************************************************)
(* A model of tncc, a toy C compiler that targets AArch64: the frame-size  *)
(* helper and the code generator (src/src/codegen.rs), the semantic pass   *)
(* (src/src/semantics.rs, src/src/symtable.rs), the parser                 *)
(* (src/src/parse.rs) and the scanner (src/src/scan.rs).                   *)
(*                                                                         *)
(* Every entry point is a function of its argument, so each one has a      *)
(* specification of its own whose Init draws the argument from a bounded   *)
(* set and whose actions run the call.  A panic!() is a terminal state     *)
(* that carries the message and no result.                                 *)
(***************************************************************************)
EXTENDS Integers, Sequences, FiniteSets, TLC

VARIABLES
    sp_size,    \* get_sp_offset: the argument `size`
    sp_ret,     \* get_sp_offset: Option<u32>, the value returned
    ast,        \* ArmGen.ast: the program, a sequence of external declarations
    target,     \* ArmGen.target
    str,        \* ArmGen.str, as the sequence of its lines
    gi,         \* position of the for_each of ArmGen::gen in ast.0
    mark,       \* Len(str) when the latest gen_func call started
    gen_pc,     \* "idle" | "new" | "iter" | "returned" | "panicked"
    asm,        \* Option<String>: what gen_asm returned
    table,      \* analyse: SymTable.stack, a sequence of scopes (name -> role)
    ai,         \* analyse: position of its loop in ast.0
    an_pc,      \* "idle" | "new" | "iter" | "returned" | "panicked"
    lit_src,    \* a literal's way through the stages: its digits,
    lit_chars,  \*   the digits scan_pos_num has not read yet,
    lit_num,    \*   `num` of scan_pos_num, a u64 kept as three limbs,
    lit_tok,    \*   the Option<TokType> scan_num returned,
    lit_expr,   \*   the Option<Expr> parse_int_const_expr returned,
    lit_asm,    \*   the lines emit_expr pushed for it,
    lit_pc,     \*   "idle" | the step it is at | "emitted" | "panicked"
    overflow_checks, \* the build's overflow-checks setting
    an_log,     \* what push_scope and pop_scope print with debug!
    an_runs,    \* the number of calls of analyse started
    source,     \* scan: the text `src`, a sequence of characters
    chars,      \* ScanInput.chars: the characters not read yet
    lookahead,  \* ScanInput.lookahead: Option<char>
    line,       \* ScanInput.line
    col,        \* ScanInput.col
    toks,       \* the Vec<Token> that collect() fills
    sc_pc,      \* "idle" | "new" | "iter" | "returned" | "panicked"
    tokens,     \* Parser.tokens
    index,      \* Parser.index
    ext_decls,  \* the Ast that Parser::parse fills
    ps_pc,      \* "idle" | "new" | "iter" | "returned" | "panicked"
    opts,       \* main: the Opts parse_opts returned
    arch,       \* std::env::consts::ARCH
    main_pc,    \* "idle" | the step main is at | "returned" | "panicked"
    fi,         \* position of the map of exec_cc1 or run_assembler
    stage,      \* exec_cc1: the stage its closure is at
    asm_paths,  \* the Vec<PathBuf> exec_cc1 collects
    obj_paths,  \* the Vec<PathBuf> run_assembler collects
    events,     \* what main did so far: stages run, files written, commands
    panic       \* the panic message, "" while nothing panicked

genvars == <<str, gi, mark, gen_pc, asm, target>>
anvars == <<table, ai, an_pc, an_log, an_runs>>
spvars == <<sp_size, sp_ret>>
scvars == <<source, chars, lookahead, line, col, toks, sc_pc>>
psvars == <<tokens, index, ext_decls, ps_pc>>
litvars == <<lit_src, lit_chars, lit_num, lit_tok, lit_expr, lit_asm, lit_pc,
             overflow_checks>>
drvars == <<opts, arch, main_pc, fi, stage, asm_paths, obj_paths, events>>
vars == <<sp_size, sp_ret, ast, target, str, gi, mark, gen_pc, asm, table, ai,
          an_pc, source, chars, lookahead, line, col, toks, sc_pc, tokens, index,
          ext_decls, ps_pc, opts, arch, main_pc, fi, stage, asm_paths,
          obj_paths, events, an_log, an_runs, lit_src, lit_chars, lit_num,
          lit_tok, lit_expr, lit_asm, lit_pc, overflow_checks, panic>>

(***************************************************************************)
(* Bounds of the model.                                                    *)
(***************************************************************************)
MaxSize == 70       \* get_sp_offset is called with sizes 0..MaxSize
MaxParams == 9      \* functions have 0..MaxParams parameters
MaxArgs == 9        \* calls have up to MaxArgs arguments
MaxDepth == 2       \* calls nest to this depth
MaxStmts == 2       \* plain function bodies have up to MaxStmts statements
MaxSrcLen == 3      \* scan is given every text of up to MaxSrcLen characters
MaxNodes == 5       \* analysed function bodies hold up to MaxNodes statements
MaxUnits == 2       \* main is given up to MaxUnits input files
MaxRuns == 2        \* analyse is called up to MaxRuns times on a program
MaxDigits == 3      \* short literals have up to MaxDigits digits

(***************************************************************************)
(* Option<T> as a sequence of at most one element.                         *)
(***************************************************************************)
None == <<>>
Some(x) == <<x>>
IsSome(o) == o # <<>>
Unwrap(o) == o[1]

Min(a, b) == IF a < b THEN a ELSE b

(***************************************************************************)
(* `let r = call; rest` is written Only({rest : r \in {call}}): the call   *)
(* is evaluated once and r is its value where `rest` uses it.              *)
(***************************************************************************)
Only(S) == CHOOSE x \in S : TRUE

(***************************************************************************)
(* The AST, as the parser builds it and the later passes match on it.      *)
(*   ExtDecl  [k |-> "Func", return_type, name, params, cmp_stmt]          *)
(*            [k |-> "Global", data_type, name, expr]                      *)
(*   ParamDecl [data_type, name]        CmpStmt [stmts]                    *)
(*   Stmt     [k |-> "VarDecl", data_type, name, expr]                     *)
(*            [k |-> "Assignment", name, expr]    [k |-> "Return", expr]   *)
(*            [k |-> "Expr", expr]      [k |-> "Compound", stmts]          *)
(*   Expr     [k |-> "IntConst", v]     [k |-> "VarRef", name]             *)
(*            [k |-> "FunctionCall", name, args]                           *)
(*            [k |-> "Arith", lhs, op, rhs]                                *)
(***************************************************************************)
IntConst(v) == [k |-> "IntConst", v |-> v]
VarRef(name) == [k |-> "VarRef", name |-> name]
FunctionCall(name, args) == [k |-> "FunctionCall", name |-> name, args |-> args]
Arith(lhs, op, rhs) == [k |-> "Arith", lhs |-> lhs, op |-> op, rhs |-> rhs]

StmtReturn(opt) == [k |-> "Return", expr |-> opt]
StmtExpr(e) == [k |-> "Expr", expr |-> e]
StmtVarDecl(dt, name, opt) ==
    [k |-> "VarDecl", data_type |-> dt, name |-> name, expr |-> opt]
StmtAssignment(name, e) == [k |-> "Assignment", name |-> name, expr |-> e]
StmtCompound(stmts) == [k |-> "Compound", stmts |-> stmts]

CmpStmt(stmts) == [stmts |-> stmts]
ParamDecl(dt, name) == [data_type |-> dt, name |-> name]
FuncDecl(rt, name, params, cmp) ==
    [k |-> "Func", return_type |-> rt, name |-> name, params |-> params,
     cmp_stmt |-> cmp]
GlobalVarDecl(dt, name, opt) ==
    [k |-> "Global", data_type |-> dt, name |-> name, expr |-> opt]

TargetOs == {"MacOs", "Linux", "Other"}

(***************************************************************************)
(* Registers.  Display for Reg prints the lower-cased Debug name.          *)
(***************************************************************************)
FP == "X29"
LP == "X30"
ARG_REGS == <<"X0", "X1", "X2", "X3", "X4", "X5", "X6", "X7">>

RegDisplay(r) ==
    CASE r = "X0" -> "x0" [] r = "X1" -> "x1" [] r = "X2" -> "x2"
      [] r = "X3" -> "x3" [] r = "X4" -> "x4" [] r = "X5" -> "x5"
      [] r = "X6" -> "x6" [] r = "X7" -> "x7" [] r = "X29" -> "x29"
      [] r = "X30" -> "x30"

(***************************************************************************)
(* Render: ptab pushes a tab, the text and a newline; pln the text and a   *)
(* newline.  str is kept as the sequence of its lines.                     *)
(***************************************************************************)
pln(s) == <<s>>
ptab(s) == pln("\t" \o s)

(* The result of a piece of generation: the lines pushed, and the panic    *)
(* message that ended it ("" when it ran to its end).                      *)
Emitted(lines) == [out |-> lines, panic |-> ""]
Panicked(lines, msg) == [out |-> lines, panic |-> msg]

(* panic!("not supported: {:?}", x): the Debug text starts with the name   *)
(* of the variant, which is what the message is modelled by.               *)
NotSupported(variant) == "not supported: " \o variant

(***************************************************************************)
(* gen_util and AddrSize                                                   *)
(***************************************************************************)
AddrSizeIntBytes == 4

\* AddrSize::get_size: 0 stands for the panic of a type that is not Int.
get_size(dt) == IF dt = "Int" THEN AddrSizeIntBytes ELSE 0

RECURSIVE SumSizes(_, _)
SumSizes(params, i) ==
    IF i > Len(params) THEN 0
    ELSE get_size(params[i].data_type) + SumSizes(params, i + 1)

\* the first parameter whose get_size panics, 0 when there is none
FirstBadParam(params) ==
    LET bad == {i \in 1..Len(params) : params[i].data_type # "Int"}
    IN IF bad = {} THEN 0 ELSE CHOOSE i \in bad : \A j \in bad : i <= j

size_args_local(func) == SumSizes(func.params, 1)

\* a slip: a whole frame is added to a size that is already aligned
get_sp_offset_pad(size) == 16 * ((size \div 16) + 1)

\* a slip: the size is taken as the frame, without rounding it up
get_sp_offset_exact(size) == size

get_sp_offset(size) ==
    16 * ((size \div 16) + (IF size % 16 = 0 THEN 0 ELSE 1))

(***************************************************************************)
(* ArmGen                                                                  *)
(***************************************************************************)
\* a slip: only Linux is left without the underscore
to_symbol_unix(tgt, name) == IF tgt = "Linux" THEN name ELSE "_" \o name

to_symbol(tgt, name) == IF tgt = "MacOs" THEN "_" \o name ELSE name

\* a slip: the move is emitted also when source and destination agree
util_move_reg_always(dst, src) ==
    IF IsSome(dst)
    THEN ptab("mov " \o RegDisplay(Unwrap(dst)) \o ", " \o RegDisplay(src))
    ELSE <<>>

util_move_reg(dst, src) ==
    IF IsSome(dst) /\ Unwrap(dst) # src
    THEN ptab("mov " \o RegDisplay(Unwrap(dst)) \o ", " \o RegDisplay(src))
    ELSE <<>>

RECURSIVE emit_expr(_, _, _), emit_args(_, _, _)
\* a slip: the arguments are lowered from the last to the first
RECURSIVE emit_args_rev(_, _, _)
emit_args_rev(tgt, args, i) ==
    IF i > Min(Len(args), Len(ARG_REGS)) THEN Emitted(<<>>)
    ELSE LET rest == emit_args_rev(tgt, args, i + 1)
         IN IF rest.panic # "" THEN rest
            ELSE LET one == emit_expr(tgt, args[i], Some(ARG_REGS[i]))
                 IN [out |-> rest.out \o one.out, panic |-> one.panic]

\* the for_each over args.iter().take(ARG_REGS.len()).enumerate(), from i on
emit_args(tgt, args, i) ==
    IF i > Min(Len(args), Len(ARG_REGS)) THEN Emitted(<<>>)
    ELSE LET one == emit_expr(tgt, args[i], Some(ARG_REGS[i]))
         IN IF one.panic # "" THEN one
            ELSE LET rest == emit_args(tgt, args, i + 1)
                 IN [out |-> one.out \o rest.out, panic |-> rest.panic]

emit_expr(tgt, expr, dst_reg) ==
    CASE expr.k = "IntConst" ->
           Emitted(IF IsSome(dst_reg)
                   THEN ptab("mov " \o RegDisplay(Unwrap(dst_reg)) \o ", #"
                             \o ToString(expr.v))
                   ELSE <<>>)
      [] expr.k = "FunctionCall" ->
           LET push == ptab("stp " \o RegDisplay(FP) \o ", " \o RegDisplay(LP)
                            \o ", [sp, #-16]!")
                       \o ptab("mov " \o RegDisplay(FP) \o ", sp")
               moved == emit_args(tgt, expr.args, 1)
           IN IF moved.panic # "" THEN Panicked(push \o moved.out, moved.panic)
              ELSE Emitted(push \o moved.out
                           \o ptab("bl " \o to_symbol(tgt, expr.name))
                           \o ptab("ldp " \o RegDisplay(FP) \o ", "
                                   \o RegDisplay(LP) \o ", [sp], #16")
                           \o util_move_reg(dst_reg, "X0"))
      [] OTHER -> Panicked(<<>>, NotSupported(expr.k))

\* a slip: a Return statement emits a ret of its own
emit_stmt_ret(tgt, stmt) ==
    CASE stmt.k = "Return" ->
           LET e == IF IsSome(stmt.expr)
                    THEN emit_expr(tgt, Unwrap(stmt.expr), Some("X0"))
                    ELSE Emitted(<<>>)
           IN IF e.panic # "" THEN e ELSE Emitted(e.out \o ptab("ret"))
      [] stmt.k = "Expr" -> emit_expr(tgt, stmt.expr, None)
      [] OTHER -> Panicked(<<>>, NotSupported(stmt.k))

\* a slip: a statement kind that is not lowered is skipped silently
emit_stmt_skip(tgt, stmt) ==
    CASE stmt.k = "Return" ->
           IF IsSome(stmt.expr) THEN emit_expr(tgt, Unwrap(stmt.expr), Some("X0"))
           ELSE Emitted(<<>>)
      [] stmt.k = "Expr" -> emit_expr(tgt, stmt.expr, None)
      [] OTHER -> Emitted(<<>>)

emit_stmt(tgt, stmt) ==
    CASE stmt.k = "Return" ->
           IF IsSome(stmt.expr) THEN emit_expr(tgt, Unwrap(stmt.expr), Some("X0"))
           ELSE Emitted(<<>>)
      [] stmt.k = "Expr" -> emit_expr(tgt, stmt.expr, None)
      [] OTHER -> Panicked(<<>>, NotSupported(stmt.k))

RECURSIVE emit_stmts(_, _, _)
emit_stmts(tgt, stmts, i) ==
    IF i > Len(stmts) THEN Emitted(<<>>)
    ELSE LET one == emit_stmt(tgt, stmts[i])
         IN IF one.panic # "" THEN one
            ELSE LET rest == emit_stmts(tgt, stmts, i + 1)
                 IN [out |-> one.out \o rest.out, panic |-> rest.panic]

emit_cmp_stmt(tgt, cmp_stmt) == emit_stmts(tgt, cmp_stmt.stmts, 1)

(* The parameter stores of gen_func, from parameter i on; arg_offset is    *)
(* the offset left by the parameters before i.  arg_offset - get_size()    *)
(* is a u32 subtraction: below zero it panics (debug build) or wraps       *)
(* (release build); the model ends the call with the overflow message,     *)
(* which no run reaches.                                                   *)
\* a slip: the offset is used before the parameter's size is taken off it
RECURSIVE emit_param_stores_post(_, _, _)
emit_param_stores_post(params, i, arg_offset) ==
    IF i > Min(Len(params), Len(ARG_REGS)) THEN Emitted(<<>>)
    ELSE IF get_size(params[i].data_type) = 0
         THEN Panicked(<<>>, NotSupported(params[i].data_type))
    ELSE IF arg_offset < get_size(params[i].data_type)
         THEN Panicked(<<>>, "attempt to subtract with overflow")
    ELSE LET off == arg_offset - get_size(params[i].data_type)
             rest == emit_param_stores_post(params, i + 1, off)
         IN [out |-> ptab("str " \o RegDisplay(ARG_REGS[i]) \o ", [sp, #"
                          \o ToString(arg_offset) \o "]") \o rest.out,
             panic |-> rest.panic]

RECURSIVE emit_param_stores(_, _, _)
emit_param_stores(params, i, arg_offset) ==
    IF i > Min(Len(params), Len(ARG_REGS)) THEN Emitted(<<>>)
    ELSE IF get_size(params[i].data_type) = 0
         THEN Panicked(<<>>, NotSupported(params[i].data_type))
    ELSE IF arg_offset < get_size(params[i].data_type)
         THEN Panicked(<<>>, "attempt to subtract with overflow")
    ELSE LET off == arg_offset - get_size(params[i].data_type)
             rest == emit_param_stores(params, i + 1, off)
         IN [out |-> ptab("str " \o RegDisplay(ARG_REGS[i]) \o ", [sp, #"
                          \o ToString(off) \o "]") \o rest.out,
             panic |-> rest.panic]

gen_func(tgt, func) ==
    LET decl == ptab(".global " \o to_symbol(tgt, func.name))
                \o ptab(".p2align 2")
                \o pln(to_symbol(tgt, func.name) \o ":")
        bad == FirstBadParam(func.params)
        size == size_args_local(func)
        sp_offset == get_sp_offset(size)
        save == IF sp_offset > 0
                THEN ptab("sub sp, sp, #" \o ToString(sp_offset)) ELSE <<>>
        args == emit_param_stores(func.params, 1, sp_offset)
        body == emit_cmp_stmt(tgt, func.cmp_stmt)
        restore == IF sp_offset > 0
                   THEN ptab("add sp, sp, #" \o ToString(sp_offset)) ELSE <<>>
    IN IF bad # 0
       THEN Panicked(decl, NotSupported(func.params[bad].data_type))
       ELSE IF args.panic # "" THEN Panicked(decl \o save \o args.out, args.panic)
       ELSE IF body.panic # ""
            THEN Panicked(decl \o save \o args.out \o body.out, body.panic)
       ELSE Emitted(decl \o save \o args.out \o body.out \o restore
                    \o ptab("ret") \o pln(""))


(***************************************************************************)
(* SymTable, SymScope and analyse.  A scope is a function from the names   *)
(* declared in it to the DeclRef variant of each; the table is the stack   *)
(* of scopes, the innermost last.                                          *)
(***************************************************************************)
SymScopeNew == <<>>

push_scope(stack) == Append(stack, SymScopeNew)
cur_scope(stack) == stack[Len(stack)]

\* cur_scope on an empty stack: `len - 1` overflows (debug build) or
\* get_mut(usize::MAX) is None and unwrap panics (release build)
EmptyStackPanic == "cur_scope: no scope"

\* debug!("push \n{}", self) and debug!("pop \n{}", self): the table printed
DebugPush(stack) == [op |-> "push", table |-> stack]
DebugPop(stack) == [op |-> "pop", table |-> stack]

format_type(declref) ==
    CASE declref = "GlobalVar" -> "global variable"
      [] declref = "Var" -> "local variable"
      [] declref = "Param" -> "function parameter"
      [] declref = "Func" -> "funcation"

AlreadyDefined(name, declref) ==
    name \o " is already define as " \o format_type(declref)

\* the result of a step of the analysis: the table it leaves, and the panic
Analysed(stack) == [table |-> stack, panic |-> ""]

\* a slip: the name is looked up in every scope of the stack
insert_decl_all(stack, name, declref) ==
    IF stack = <<>> THEN [table |-> stack, panic |-> EmptyStackPanic]
    ELSE IF \E i \in 1..Len(stack) : name \in DOMAIN stack[i]
    THEN LET i == CHOOSE i \in 1..Len(stack) : name \in DOMAIN stack[i]
         IN [table |-> stack, panic |-> AlreadyDefined(name, stack[i][name])]
    ELSE Analysed([stack EXCEPT ![Len(stack)] = @ @@ (name :> declref)])

\* table.cur_scope().insert_decl(name, decl)
insert_decl(stack, name, declref) ==
    IF stack = <<>> THEN [table |-> stack, panic |-> EmptyStackPanic]
    ELSE IF name \in DOMAIN cur_scope(stack)
    THEN [table |-> stack,
          panic |-> AlreadyDefined(name, cur_scope(stack)[name])]
    ELSE Analysed([stack EXCEPT ![Len(stack)] = @ @@ (name :> declref)])

\* the result of a step, with what it printed
Logged(r, log) == [table |-> r.table, panic |-> r.panic, log |-> log]

\* a slip: the scope of a block is left on the stack
pop_scope_keep(stack) == stack

pop_scope(stack) == SubSeq(stack, 1, Len(stack) - 1)

RECURSIVE analyse_stmts(_, _, _), analyse_cmp_stmt(_, _)
\* the for loop of analyse_cmp_stmt, from statement i on
analyse_stmts(stack, stmts, i) ==
    IF i > Len(stmts) THEN Logged(Analysed(stack), <<>>)
    ELSE Only({ IF one.panic # "" THEN one
                ELSE Only({ Logged(rest, one.log \o rest.log) :
                            rest \in {analyse_stmts(one.table, stmts, i + 1)} }) :
                one \in { CASE stmts[i].k = "Compound" ->
                                 analyse_cmp_stmt(stack, CmpStmt(stmts[i].stmts))
                            [] stmts[i].k = "VarDecl" ->
                                 Logged(insert_decl(stack, stmts[i].name, "Var"),
                                        <<>>)
                            [] OTHER -> Logged(Analysed(stack), <<>>) } })

analyse_cmp_stmt(stack, cmp_stmt) ==
    Only({ IF body.panic # ""
           THEN Logged(body, <<DebugPush(stack)>> \o body.log)
           ELSE Logged(Analysed(pop_scope(body.table)),
                       <<DebugPush(stack)>> \o body.log
                          \o <<DebugPop(body.table)>>) :
           body \in {analyse_stmts(push_scope(stack), cmp_stmt.stmts, 1)} })

\* analyse: the table is created and the root scope pushed
AnalyseBegin ==
    /\ an_pc = "new" \/ (an_pc = "returned" /\ an_runs < MaxRuns)
    /\ table' = push_scope(<<>>)
    /\ an_log' = Append(an_log, DebugPush(<<>>))
    /\ an_runs' = an_runs + 1
    /\ ai' = 1
    /\ an_pc' = "iter"
    /\ UNCHANGED <<litvars, drvars, spvars, scvars, psvars, genvars, ast, panic>>

\* one iteration of the loop over ast.0
AnalyseExt ==
    /\ an_pc = "iter"
    /\ ai <= Len(ast)
    /\ \E ins \in {insert_decl(table, ast[ai].name,
                               IF ast[ai].k = "Func" THEN "Func"
                               ELSE "GlobalVar")} :
       \E r \in {IF ast[ai].k = "Func" /\ ins.panic = ""
                 THEN analyse_cmp_stmt(ins.table, ast[ai].cmp_stmt)
                 ELSE Logged(ins, <<>>)} :
          /\ table' = r.table
          /\ an_log' = an_log \o r.log
          /\ IF r.panic # ""
             THEN /\ an_pc' = "panicked"
                  /\ panic' = r.panic
                  /\ UNCHANGED ai
             ELSE /\ ai' = ai + 1
                  /\ UNCHANGED <<an_pc, panic>>
    /\ UNCHANGED <<litvars, drvars, spvars, scvars, psvars, genvars, ast, an_runs>>

\* the root scope is popped and analyse returns
AnalyseEnd ==
    /\ an_pc = "iter"
    /\ ai > Len(ast)
    /\ an_log' = Append(an_log, DebugPop(table))
    /\ table' = pop_scope(table)
    /\ an_pc' = "returned"
    /\ UNCHANGED <<litvars, drvars, spvars, scvars, psvars, genvars, ast, ai, an_runs,
                   panic>>

(***************************************************************************)
(* ArmGen::gen, one step per iteration of its for_each, and gen_asm's      *)
(* return.  A panic unwinds through gen_asm: the ArmGen and its string     *)
(* are dropped and nothing is returned.                                    *)
(***************************************************************************)
\* a slip: the program is put in the data section
begin_data == ".data"

\* let begin = ".text"
begin == ".text"

GenBegin ==
    /\ gen_pc = "new"
    /\ str' = ptab(begin)
    /\ gi' = 1
    /\ gen_pc' = "iter"
    /\ UNCHANGED <<litvars, drvars, spvars, scvars, psvars, anvars, ast, target, mark, asm, panic>>

GenExtFunc ==
    /\ gen_pc = "iter"
    /\ gi <= Len(ast)
    /\ ast[gi].k = "Func"
    /\ LET r == gen_func(target, ast[gi])
       IN IF r.panic # ""
          THEN /\ gen_pc' = "panicked"
               /\ panic' = r.panic
               /\ str' = <<>>
               /\ UNCHANGED <<gi, mark>>
          ELSE /\ str' = str \o r.out
               /\ mark' = Len(str)
               /\ gi' = gi + 1
               /\ UNCHANGED <<gen_pc, panic>>
    /\ UNCHANGED <<litvars, drvars, spvars, scvars, psvars, anvars, ast, target, asm>>

GenExtGlobal ==
    /\ gen_pc = "iter"
    /\ gi <= Len(ast)
    /\ ast[gi].k = "Global"
    /\ gi' = gi + 1
    /\ UNCHANGED <<litvars, drvars, spvars, scvars, psvars, anvars, ast, target, str, mark, gen_pc, asm, panic>>

GenReturn ==
    /\ gen_pc = "iter"
    /\ gi > Len(ast)
    /\ asm' = Some(str)
    /\ gen_pc' = "returned"
    /\ UNCHANGED <<litvars, drvars, spvars, scvars, psvars, anvars, ast, target, str, gi, mark, panic>>

(***************************************************************************)
(* gen_util::get_sp_offset, called on its own (as its unit test does).     *)
(***************************************************************************)
CallGetSpOffset ==
    /\ sp_ret = None
    /\ sp_size \in Nat
    /\ sp_ret' = Some(get_sp_offset(sp_size))
    /\ UNCHANGED <<litvars, drvars, sp_size, scvars, psvars, genvars, anvars, ast, panic>>

(***************************************************************************)
(* Tokens (src/src/common.rs).  A TokType is a record whose field k is the *)
(* variant; ID carries its string, NumInt its value.  NumReal carries the  *)
(* three numbers scan_num computes its f64 from: the value is              *)
(* num1 + num2^(-ct).                                                      *)
(***************************************************************************)
KeywordVoid == [k |-> "KeywordVoid"]
KeywordInt == [k |-> "KeywordInt"]
KeywordReturn == [k |-> "KeywordReturn"]
ID(s) == [k |-> "ID", s |-> s]
NumInt(v) == [k |-> "NumInt", v |-> v]
NumReal(num1, num2, ct) == [k |-> "NumReal", num1 |-> num1, num2 |-> num2, ct |-> ct]
ParentOpen == [k |-> "ParentOpen"]
ParentClose == [k |-> "ParentClose"]
BracketOpen == [k |-> "BracketOpen"]
BracketClose == [k |-> "BracketClose"]
Semicolon == [k |-> "Semicolon"]
Minus == [k |-> "Minus"]
Plus == [k |-> "Plus"]
Assign == [k |-> "Assign"]

Token(tok, ln, column) == [tok |-> tok, loc |-> <<ln, column>>]

(***************************************************************************)
(* The scanner (src/src/scan.rs).  A character is a string of length one   *)
(* and the source text a sequence of characters.  The operators take the   *)
(* ScanInput as a record [chars, lookahead, line, col] and return it       *)
(* changed, next to their result.                                          *)
(***************************************************************************)
AsciiDigit == {"0", "1", "2", "3", "4", "5", "6", "7", "8", "9"}
AsciiAlphabetic ==
    {"a", "b", "c", "d", "e", "f", "g", "h", "i", "j", "k", "l", "m",
     "n", "o", "p", "q", "r", "s", "t", "u", "v", "w", "x", "y", "z",
     "A", "B", "C", "D", "E", "F", "G", "H", "I", "J", "K", "L", "M",
     "N", "O", "P", "Q", "R", "S", "T", "U", "V", "W", "X", "Y", "Z"}
AsciiAlphanumeric == AsciiAlphabetic \cup AsciiDigit
AsciiWhitespace == {" ", "\t", "\n", "\f", "\r"}

char_to_u64(ch) == CHOOSE d \in 0..9 : ToString(d) = ch

\* ScanInput::next(): the character read (an Option) and the input after it
ScanInput_next(S) ==
    LET opt == IF IsSome(S.lookahead) THEN S.lookahead
               ELSE IF S.chars = <<>> THEN None
               ELSE Some(Head(S.chars))
        S1 == IF IsSome(S.lookahead) THEN [S EXCEPT !.lookahead = None]
              ELSE IF S.chars = <<>> THEN S
              ELSE [S EXCEPT !.chars = Tail(@)]
        S2 == IF ~IsSome(opt) THEN S1
              ELSE IF Unwrap(opt) \in {"\n", "\r"}
                   THEN [S1 EXCEPT !.line = @ + 1, !.col = 1]
              ELSE [S1 EXCEPT !.col = @ + 1]
    IN [s |-> S2, c |-> opt]

put_back(S, ch) == [S EXCEPT !.lookahead = Some(ch), !.col = @ - 1]

RECURSIVE skip_whitespace(_)
skip_whitespace(S) ==
    Only({ IF ~IsSome(n.c) THEN n.s
           ELSE IF Unwrap(n.c) \in AsciiWhitespace THEN skip_whitespace(n.s)
           ELSE put_back(n.s, Unwrap(n.c)) :
           n \in {ScanInput_next(S)} })

\* a run that takes letters and underscores only
RECURSIVE scan_id_run_letters(_, _)
scan_id_run_letters(S, run) ==
    Only({ IF ~IsSome(n.c) THEN [s |-> n.s, run |-> run]
           ELSE IF Unwrap(n.c) \in AsciiAlphabetic \cup {"_"}
                THEN scan_id_run_letters(n.s, run \o Unwrap(n.c))
           ELSE [s |-> put_back(n.s, Unwrap(n.c)), run |-> run] :
           n \in {ScanInput_next(S)} })

\* the loop of scan_keyword_or_id: the run read and the input after it
RECURSIVE scan_id_run(_, _)
scan_id_run(S, run) ==
    Only({ IF ~IsSome(n.c) THEN [s |-> n.s, run |-> run]
           ELSE IF Unwrap(n.c) \in AsciiAlphanumeric \cup {"_"}
                THEN scan_id_run(n.s, run \o Unwrap(n.c))
           ELSE [s |-> put_back(n.s, Unwrap(n.c)), run |-> run] :
           n \in {ScanInput_next(S)} })

scan_keyword_or_id(S, c) ==
    Only({ [s |-> r.s,
            tok |-> CASE r.run = "int" -> KeywordInt
                      [] r.run = "void" -> KeywordVoid
                      [] r.run = "return" -> KeywordReturn
                      [] OTHER -> ID(r.run)] :
           r \in {scan_id_run(S, c)} })

RECURSIVE scan_pos_num_loop(_, _, _)
scan_pos_num_loop(S, num, count) ==
    Only({ IF ~IsSome(n.c) THEN [s |-> n.s, num |-> num, count |-> count]
           ELSE IF Unwrap(n.c) \in AsciiDigit
                THEN scan_pos_num_loop(n.s, num * 10 + char_to_u64(Unwrap(n.c)),
                                       count + 1)
           ELSE [s |-> put_back(n.s, Unwrap(n.c)), num |-> num,
                 count |-> count] :
           n \in {ScanInput_next(S)} })

scan_pos_num(S, prefix) == scan_pos_num_loop(S, prefix, 0)

\* scan_num once the digits before the dot are read (p1) and the character
\* after them (n)
scan_num_rest(p1, n) ==
    IF n.c = Some(".")
    THEN Only({ [s |-> p2.s, tok |-> NumReal(p1.num, p2.num, p2.count)] :
                p2 \in {scan_pos_num(n.s, 0)} })
    ELSE IF IsSome(n.c)
         THEN [s |-> put_back(n.s, Unwrap(n.c)), tok |-> NumInt(p1.num)]
    ELSE [s |-> n.s, tok |-> NumInt(p1.num)]

scan_num(S, c) ==
    Only({ Only({ scan_num_rest(p1, n) : n \in {ScanInput_next(p1.s)} }) :
           p1 \in {scan_pos_num(S, char_to_u64(c))} })

new_token(S, tok_type, column) == Token(tok_type, S.line, column)

UnexpectedChar(t) == "unexpected char: " \o t

\* the punctuation arms of the match in scan_token
PunctTok(c) ==
    CASE c = "(" -> ParentOpen
      [] c = ")" -> ParentClose
      [] c = "{" -> BracketOpen
      [] c = "}" -> BracketClose
      [] c = ";" -> Semicolon
      [] c = "-" -> Minus
      [] c = "+" -> Plus
      [] c = "=" -> Assign
PunctChars == {"(", ")", "{", "}", ";", "-", "+", "="}

\* the match of scan_token on the character c read, at column `column`,
\* with n.s the input after it
scan_token_match(n, c, column) ==
    IF c \in PunctChars
    THEN [s |-> n.s, res |-> Some(new_token(n.s, PunctTok(c), column)),
          panic |-> ""]
    ELSE IF c \in AsciiAlphabetic
    THEN Only({ [s |-> r.s, res |-> Some(new_token(r.s, r.tok, column)),
                 panic |-> ""] :
                r \in {scan_keyword_or_id(n.s, c)} })
    ELSE IF c \in AsciiDigit
    THEN Only({ [s |-> r.s, res |-> Some(new_token(r.s, r.tok, column)),
                 panic |-> ""] :
                r \in {scan_num(n.s, c)} })
    ELSE [s |-> n.s, res |-> None, panic |-> UnexpectedChar(c)]

\* scan_token: the input after the call, the Option<Token> returned, and
\* the panic message ("" when it returned)
scan_token(S) ==
    Only({ Only({ IF ~IsSome(n.c) THEN [s |-> n.s, res |-> None, panic |-> ""]
                  ELSE scan_token_match(n, Unwrap(n.c), S0.col) :
                  n \in {ScanInput_next(S0)} }) :
           S0 \in {skip_whitespace(S)} })

\* the ScanInput held in the variables
ScanInputNow ==
    [chars |-> chars, lookahead |-> lookahead, line |-> line, col |-> col]

\* scan: ScanInput::from(src.chars())
ScanBegin ==
    /\ sc_pc = "new"
    /\ chars' = source
    /\ lookahead' = None
    /\ line' = 1
    /\ col' = 1
    /\ toks' = <<>>
    /\ sc_pc' = "iter"
    /\ UNCHANGED <<litvars, drvars, spvars, genvars, anvars, psvars, ast, source, panic>>

\* one Iterator::next() of collect(): a token is pushed, or None ends the
\* collection and scan returns, or the panic unwinds and drops the tokens
ScanNext ==
    /\ sc_pc = "iter"
    /\ \E r \in {scan_token(ScanInputNow)} :
          /\ chars' = r.s.chars
          /\ lookahead' = r.s.lookahead
          /\ line' = r.s.line
          /\ col' = r.s.col
          /\ IF r.panic # ""
             THEN /\ toks' = <<>>
                  /\ sc_pc' = "panicked"
                  /\ panic' = r.panic
             ELSE IF IsSome(r.res)
             THEN /\ toks' = Append(toks, Unwrap(r.res))
                  /\ UNCHANGED <<sc_pc, panic>>
             ELSE /\ sc_pc' = "returned"
                  /\ UNCHANGED <<toks, panic>>
    /\ UNCHANGED <<litvars, drvars, spvars, genvars, anvars, psvars, ast, source>>

(***************************************************************************)
(* Display and Debug of tokens (src/src/common.rs), as the parser's        *)
(* diagnostics print them.                                                 *)
(***************************************************************************)
\* parse.rs matches on TokType::Comma, a unit variant like Plus and Minus
Comma == [k |-> "Comma"]

\* {:?} of the f64 of a NumReal, for the values the rendering is exact of:
\* powi(0) is 1.0, 1.0 to any power is 1.0, and 0.0 to a negative power inf
F64Debug(num1, num2, ct) ==
    CASE ct = 0 \/ num2 = 1 -> ToString(num1 + 1) \o ".0"
      [] ct > 0 /\ num2 = 0 -> "inf"

\* {:?} of a TokType (derived)
TokTypeDebug(t) ==
    CASE t.k = "ID" -> "ID(\"" \o t.s \o "\")"
      [] t.k = "NumInt" -> "NumInt(" \o ToString(t.v) \o ")"
      [] t.k = "NumReal" -> "NumReal(" \o F64Debug(t.num1, t.num2, t.ct) \o ")"
      [] OTHER -> t.k

\* Display for TokType
TokTypeDisplay(t) ==
    CASE t.k = "KeywordVoid" -> "void"
      [] t.k = "KeywordInt" -> "int"
      [] t.k = "KeywordReturn" -> "return"
      [] t.k = "ParentOpen" -> "("
      [] t.k = "ParentClose" -> ")"
      [] t.k = "BracketOpen" -> "{"
      [] t.k = "BracketClose" -> "}"
      [] t.k = "Assign" -> "="
      [] t.k = "Semicolon" -> ";"
      [] t.k = "ID" -> "identifier '" \o t.s \o "'"
      [] OTHER -> TokTypeDebug(t)

\* Display for Token
TokenDisplay(t) ==
    TokTypeDisplay(t.tok) \o " at " \o ToString(t.loc[1]) \o ":"
        \o ToString(t.loc[2])

\* {:?} of an Option<&Token>
OptTokenDebug(opt) ==
    IF ~IsSome(opt) THEN "None"
    ELSE "Some(Token { tok: " \o TokTypeDebug(Unwrap(opt).tok) \o ", loc: ("
         \o ToString(Unwrap(opt).loc[1]) \o ", "
         \o ToString(Unwrap(opt).loc[2]) \o ") })"

(***************************************************************************)
(* The parser (src/src/parse.rs).  The operators take the Parser as a      *)
(* record [tokens, index] and return [p, v, panic]: the parser after the   *)
(* call, the value returned, and the message of the panic that ended the   *)
(* call ("" when it returned).  index counts from 0 as in the source.      *)
(***************************************************************************)
Ok(P, v) == [p |-> P, v |-> v, panic |-> ""]
Err(P, msg) == [p |-> P, v |-> None, panic |-> msg]

\* TokenPeeker
lookahead_at(P, i) ==
    IF P.index + i < Len(P.tokens) THEN Some(P.tokens[P.index + i + 1])
    ELSE None
\* a slip: the peek looks one token too far
peek_ahead(P) == lookahead_at(P, 1)

peek(P) == lookahead_at(P, 0)
Parser_next(P) == [p |-> [P EXCEPT !.index = @ + 1], t |-> peek(P)]

is_peek_tok(P, tok) == IsSome(peek(P)) /\ Unwrap(peek(P)).tok = tok
is_int_const_expr(P) == IsSome(peek(P)) /\ Unwrap(peek(P)).tok.k = "NumInt"
is_ref(P) == IsSome(peek(P)) /\ Unwrap(peek(P)).tok.k = "ID"
is_expr(P) == is_int_const_expr(P) \/ is_ref(P)

parse_data_type_opt(tok) ==
    CASE tok.tok.k = "KeywordInt" -> Some("Int")
      [] tok.tok.k = "KeywordVoid" -> Some("Void")
      [] OTHER -> None
is_data_type(tok) == IsSome(parse_data_type_opt(tok))

consume_any(P) == Parser_next(P).p

\* a consume that takes whatever token comes
consume_unchecked(P, tok) ==
    Only({ IF ~IsSome(n.t)
           THEN Err(n.p, "expected " \o TokTypeDisplay(tok) \o " but EOF")
           ELSE Ok(n.p, None) :
           n \in {Parser_next(P)} })

consume(P, tok) ==
    Only({ IF ~IsSome(n.t)
           THEN Err(n.p, "expected " \o TokTypeDisplay(tok) \o " but EOF")
           ELSE IF Unwrap(n.t).tok = tok THEN Ok(n.p, None)
           ELSE Err(n.p, "expected " \o TokTypeDisplay(tok) \o " but "
                           \o TokenDisplay(Unwrap(n.t))) :
           n \in {Parser_next(P)} })

parse_data_type(P) ==
    Only({ IF ~IsSome(n.t) THEN Err(n.p, "unexpected EOF")
           ELSE IF is_data_type(Unwrap(n.t))
                THEN Ok(n.p, Unwrap(parse_data_type_opt(Unwrap(n.t))))
           ELSE Err(n.p, "expected data type but "
                           \o TokenDisplay(Unwrap(n.t))) :
           n \in {Parser_next(P)} })

parse_id(P) ==
    Only({ IF ~IsSome(n.t) THEN Err(n.p, "unexpected EOF")
           ELSE IF Unwrap(n.t).tok.k = "ID" THEN Ok(n.p, Unwrap(n.t).tok.s)
           ELSE Err(n.p, "exepcted ID but " \o TokenDisplay(Unwrap(n.t))) :
           n \in {Parser_next(P)} })

\* (DataType, String)
parse_declarator(P) ==
    Only({ IF dt.panic # "" THEN dt
           ELSE Only({ IF id.panic # "" THEN id
                       ELSE Ok(id.p, <<dt.v, id.v>>) :
                       id \in {parse_id(dt.p)} }) :
           dt \in {parse_data_type(P)} })

parse_parameter(P) ==
    Only({ IF d.panic # "" THEN d ELSE Ok(d.p, ParamDecl(d.v[1], d.v[2])) :
           d \in {parse_declarator(P)} })

\* the loop of parse_parameters, after the first parameter
RECURSIVE parse_parameters_loop(_, _)
parse_parameters_loop(P, vec) ==
    IF is_peek_tok(P, Comma)
    THEN Only({ IF r.panic # "" THEN r
                ELSE parse_parameters_loop(r.p, Append(vec, r.v)) :
                r \in {parse_parameter(consume_any(P))} })
    ELSE Ok(P, vec)

parse_parameters(P) ==
    IF IsSome(peek(P)) /\ is_data_type(Unwrap(peek(P)))
    THEN Only({ IF r.panic # "" THEN r
                ELSE parse_parameters_loop(r.p, <<r.v>>) :
                r \in {parse_parameter(P)} })
    ELSE Ok(P, <<>>)

\* `*v as i64`: a value below 2^63 is kept, one from 2^63 on loses 2^64
\* (2^63 is 2^30 * 2^30 * 8)
u64_as_i64(v) ==
    IF ((v \div (2^30)) \div (2^30)) \div 8 >= 1
    THEN v - (2^30) * (2^30) * 16
    ELSE v

parse_int_const_expr(P) ==
    Only({ IF ~IsSome(n.t) THEN Err(n.p, "unexpected EOF")
           ELSE IF Unwrap(n.t).tok.k = "NumInt"
                THEN Ok(n.p, IntConst(u64_as_i64(Unwrap(n.t).tok.v)))
           ELSE Err(n.p, "expected int constant but "
                           \o TokenDisplay(Unwrap(n.t))) :
           n \in {Parser_next(P)} })

RECURSIVE parse_expr(_), parse_arguments_loop(_, _)

parse_arguments(P) ==
    IF is_expr(P)
    THEN Only({ IF r.panic # "" THEN r
                ELSE parse_arguments_loop(r.p, <<r.v>>) :
                r \in {parse_expr(P)} })
    ELSE Ok(P, <<>>)

parse_arguments_loop(P, vec) ==
    IF is_peek_tok(P, Comma)
    THEN Only({ IF r.panic # "" THEN r
                ELSE parse_arguments_loop(r.p, Append(vec, r.v)) :
                r \in {parse_expr(consume_any(P))} })
    ELSE Ok(P, vec)

parse_function_call_expr(P, name) ==
    Only({ IF o.panic # "" THEN o
           ELSE Only({ IF args.panic # "" THEN args
                       ELSE Only({ IF c.panic # "" THEN c
                                   ELSE Ok(c.p, FunctionCall(name, args.v)) :
                                   c \in {consume(args.p, ParentClose)} }) :
                       args \in {parse_arguments(o.p)} }) :
           o \in {consume(P, ParentOpen)} })

\* a parse_ref_expr that takes a call for a variable reference
parse_ref_expr_var(P) ==
    Only({ IF name.panic # "" THEN name
           ELSE IF is_peek_tok(name.p, ParentOpen)
                THEN Only({ IF c.panic # "" THEN c
                            ELSE Ok(c.p, VarRef(name.v)) :
                            c \in {parse_function_call_expr(name.p, name.v)} })
           ELSE Ok(name.p, VarRef(name.v)) :
           name \in {parse_id(P)} })

parse_ref_expr(P) ==
    Only({ IF name.panic # "" THEN name
           ELSE IF is_peek_tok(name.p, ParentOpen)
                THEN parse_function_call_expr(name.p, name.v)
           ELSE Ok(name.p, VarRef(name.v)) :
           name \in {parse_id(P)} })

parse_expr(P) ==
    IF is_int_const_expr(P) THEN parse_int_const_expr(P)
    ELSE IF is_ref(P) THEN parse_ref_expr(P)
    ELSE Err(P, "expected expression but " \o OptTokenDebug(peek(P)))

\* `= expr` after the declarator d, when the peek is `=`
parse_initializer(d) ==
    Only({ IF a.panic # "" THEN a
           ELSE Only({ IF e.panic # "" THEN e
                       ELSE Ok(e.p, StmtVarDecl(d.v[1], d.v[2], Some(e.v))) :
                       e \in {parse_expr(a.p)} }) :
           a \in {consume(d.p, Assign)} })

\* VarDecl(data_type, name, expr), already wrapped as Stmt::VarDecl
parse_var_decl(P) ==
    Only({ IF d.panic # "" THEN d
           ELSE IF is_peek_tok(d.p, Assign) THEN parse_initializer(d)
           ELSE Ok(d.p, StmtVarDecl(d.v[1], d.v[2], None)) :
           d \in {parse_declarator(P)} })

parse_var_decl_stmt(P) ==
    Only({ IF decl.panic # "" THEN decl
           ELSE Only({ IF s.panic # "" THEN s ELSE Ok(s.p, decl.v) :
                       s \in {consume(decl.p, Semicolon)} }) :
           decl \in {parse_var_decl(P)} })

\* the rest of parse_return_stmt, e being the Option<Expr> parsed
parse_return_end(e) ==
    Only({ IF s.panic # "" THEN s ELSE Ok(s.p, StmtReturn(e.v)) :
           s \in {consume(e.p, Semicolon)} })

parse_return_stmt(P) ==
    Only({ IF r.panic # "" THEN r
           ELSE IF is_expr(r.p)
                THEN Only({ IF e.panic # "" THEN e
                            ELSE parse_return_end(Ok(e.p, Some(e.v))) :
                            e \in {parse_expr(r.p)} })
           ELSE parse_return_end(Ok(r.p, None)) :
           r \in {consume(P, KeywordReturn)} })

parse_expr_stmt(P) ==
    Only({ IF e.panic # "" THEN e
           ELSE Only({ IF s.panic # "" THEN s ELSE Ok(s.p, StmtExpr(e.v)) :
                       s \in {consume(e.p, Semicolon)} }) :
           e \in {parse_expr(P)} })

RECURSIVE parse_stmt(_), parse_stmts(_, _)

parse_compound_stmt(P) ==
    Only({ IF o.panic # "" THEN o
           ELSE Only({ IF body.panic # "" THEN body
                       ELSE Only({ IF c.panic # "" THEN c
                                   ELSE Ok(c.p, CmpStmt(body.v)) :
                                   c \in {consume(body.p, BracketClose)} }) :
                       body \in {parse_stmts(o.p, <<>>)} }) :
           o \in {consume(P, BracketOpen)} })

\* the loop of parse_compound_stmt: parse_stmt until it returns None
parse_stmts(P, stmts) ==
    Only({ IF r.panic # "" THEN r
           ELSE IF IsSome(r.v) THEN parse_stmts(r.p, Append(stmts, Unwrap(r.v)))
           ELSE Ok(r.p, stmts) :
           r \in {parse_stmt(P)} })

\* Some(stmt) of a statement parsed
SomeStmt(r) == IF r.panic # "" THEN r ELSE Ok(r.p, Some(r.v))

\* Option<Stmt>
parse_stmt(P) ==
    IF is_expr(P) THEN Only({ SomeStmt(r) : r \in {parse_expr_stmt(P)} })
    ELSE IF ~IsSome(peek(P)) THEN Err(P, "unexpected EOF")
    ELSE IF is_data_type(Unwrap(peek(P)))
         THEN Only({ SomeStmt(r) : r \in {parse_var_decl_stmt(P)} })
    ELSE IF is_peek_tok(P, KeywordReturn)
         THEN Only({ SomeStmt(r) : r \in {parse_return_stmt(P)} })
    ELSE IF is_peek_tok(P, BracketOpen)
         THEN Only({ IF c.panic # "" THEN c
                     ELSE Ok(c.p, Some(StmtCompound(c.v.stmts))) :
                     c \in {parse_compound_stmt(P)} })
    ELSE IF is_peek_tok(P, BracketClose) THEN Ok(P, None)
    ELSE Err(P, "unexpected " \o TokenDisplay(Unwrap(peek(P))))

\* (Vec<ParamDecl>, CmpStmt)
parse_func_params_body(P) ==
    Only({ IF o.panic # "" THEN o
           ELSE Only({ IF params.panic # "" THEN params
               ELSE Only({ IF c.panic # "" THEN c
                   ELSE Only({ IF cmp.panic # "" THEN cmp
                               ELSE Ok(cmp.p, <<params.v, cmp.v>>) :
                               cmp \in {parse_compound_stmt(c.p)} }) :
                   c \in {consume(params.p, ParentClose)} }) :
               params \in {parse_parameters(o.p)} }) :
           o \in {consume(P, ParentOpen)} })

\* the global arm of Parser::parse, after the declarator d: e is the
\* Option<Expr> parsed
parse_global_end(d, e) ==
    Only({ IF s.panic # "" THEN s
           ELSE Ok(s.p, GlobalVarDecl(d.v[1], d.v[2], e.v)) :
           s \in {consume(e.p, Semicolon)} })

\* one iteration of the loop of Parser::parse whose peek is a data type:
\* the external declaration parsed
parse_ext_decl(P) ==
    Only({ IF d.panic # "" THEN d
           ELSE IF is_peek_tok(d.p, ParentOpen)
           THEN Only({ IF f.panic # "" THEN f
                       ELSE Ok(f.p, FuncDecl(d.v[1], d.v[2], f.v[1], f.v[2])) :
                       f \in {parse_func_params_body(d.p)} })
           ELSE IF is_peek_tok(d.p, Assign)
           THEN Only({ IF e.panic # "" THEN e
                       ELSE parse_global_end(d, Ok(e.p, Some(e.v))) :
                       e \in {parse_expr(consume_any(d.p))} })
           ELSE parse_global_end(d, Ok(d.p, None)) :
           d \in {parse_declarator(P)} })

\* the Parser held in the variables
ParserNow == [tokens |-> tokens, index |-> index]

\* parse: Parser::new(tokens), and the empty Ast of Parser::parse
ParseBegin ==
    /\ ps_pc = "new"
    /\ index' = 0
    /\ ext_decls' = <<>>
    /\ ps_pc' = "iter"
    /\ UNCHANGED <<litvars, drvars, spvars, genvars, anvars, scvars, ast, tokens, panic>>

\* one iteration of the loop of Parser::parse that peeks a token: an
\* external declaration is pushed, or a panic unwinds and drops the Ast
ParseExtDecl ==
    /\ ps_pc = "iter"
    /\ IsSome(peek(ParserNow))
    /\ \E r \in {IF is_data_type(Unwrap(peek(ParserNow)))
                 THEN parse_ext_decl(ParserNow)
                 ELSE Err(ParserNow, "unexpected "
                            \o TokenDisplay(Unwrap(peek(ParserNow))))} :
          /\ index' = r.p.index
          /\ IF r.panic # ""
             THEN /\ ext_decls' = <<>>
                  /\ ps_pc' = "panicked"
                  /\ panic' = r.panic
             ELSE /\ ext_decls' = Append(ext_decls, r.v)
                  /\ UNCHANGED <<ps_pc, panic>>
    /\ UNCHANGED <<litvars, drvars, spvars, genvars, anvars, scvars, ast, tokens>>

\* the iteration that peeks None: the loop breaks and parse returns the Ast
ParseReturn ==
    /\ ps_pc = "iter"
    /\ ~IsSome(peek(ParserNow))
    /\ ps_pc' = "returned"
    /\ UNCHANGED <<litvars, drvars, spvars, genvars, anvars, scvars, ast, tokens, index,
                   ext_decls, panic>>

(***************************************************************************)
(* The driver (src/src/main.rs).  A file of opts.files is modelled by      *)
(* whether it is a file and by the stage of the front-end that its         *)
(* contents make abort ("" when none does).  events is what main has done: *)
(* the stages it called, the files it wrote, the commands it ran.          *)
(***************************************************************************)
\* exec_cc1: the stages of its closure, in the order of its statements
cc1_stages == <<"read", "scan", "parse", "analyse", "gen_asm", "write">>

\* the stage that follows s in the closure of exec_cc1
cc1_after(s) ==
    cc1_stages[1 + CHOOSE i \in 1..(Len(cc1_stages) - 1) : cc1_stages[i] = s]

\* a slip: an abort of a stage is caught and the closure goes on
stage_recovers(file, s) == FALSE

\* the stage s panics on the contents of the file
stage_panics(file, s) == file.aborts = s

\* what Command::status() gives
ExitStatuses == {"success", "failure", "error"}

\* a slip: only a command that could not be run is fatal
ensure_success_lenient(status, msg) ==
    CASE status = "success" -> ""
      [] status = "failure" -> ""
      [] OTHER -> "Failed to execute, error"

\* ensure_success: "" when it returns, the panic message otherwise
ensure_success(status, msg) ==
    CASE status = "success" -> ""
      [] status = "failure" -> msg
      [] OTHER -> "Failed to execute, error"

\* check_target: "" when it returns, the panic message otherwise
check_target(os, aarch64) ==
    IF os \in {"MacOs", "Linux"} /\ aarch64 THEN ""
    ELSE "Current OS and arch is not yet supported"

\* util::is_aarch64
is_aarch64 == arch = "aarch64"

\* new_output_asm / new_output_obj: the path made for unit i
new_output(i, ext, is_temp) == [unit |-> i, ext |-> ext, is_temp |-> is_temp]

Event(op, i) == [op |-> op, unit |-> i]

\* ensure_input_exist(&opts.files)
EnsureInputExist ==
    /\ main_pc = "ensure_input_exist"
    /\ IF \E i \in 1..Len(opts.files) : ~opts.files[i].is_file
       THEN /\ main_pc' = "panicked"
            /\ panic' = "invalid input file"
            /\ UNCHANGED <<fi, stage>>
       ELSE /\ main_pc' = "exec_cc1"
            /\ fi' = 1
            /\ stage' = cc1_stages[1]
            /\ UNCHANGED panic
    /\ UNCHANGED <<litvars, spvars, genvars, anvars, scvars, psvars, ast, opts, arch,
                   asm_paths, obj_paths, events>>

\* exec_cc1: one of read_to_string, scan, parse, analyse, gen_asm for file fi
Cc1Stage ==
    /\ main_pc = "exec_cc1"
    /\ fi <= Len(opts.files)
    /\ stage # "write"
    /\ events' = Append(events, Event(stage, fi))
    /\ IF stage_panics(opts.files[fi], stage)
       THEN /\ main_pc' = "panicked"
            /\ panic' = "panicked in " \o stage
            /\ UNCHANGED stage
       ELSE /\ stage' = cc1_after(stage)
            /\ UNCHANGED <<main_pc, panic>>
    /\ UNCHANGED <<litvars, spvars, genvars, anvars, scvars, psvars, ast, opts, arch, fi,
                   asm_paths, obj_paths>>

\* exec_cc1: write_asm_file for file fi; File::create may fail
Cc1Write ==
    /\ main_pc = "exec_cc1"
    /\ fi <= Len(opts.files)
    /\ stage = "write"
    /\ \E created \in BOOLEAN :
          IF created
          THEN /\ events' = Append(events, Event("write", fi))
               /\ asm_paths' = Append(asm_paths,
                                      new_output(fi, "s", ~opts.compile_only))
               /\ fi' = fi + 1
               /\ stage' = cc1_stages[1]
               /\ UNCHANGED <<main_pc, panic>>
          ELSE /\ main_pc' = "panicked"
               /\ panic' = "failed to create file"
               /\ UNCHANGED <<events, asm_paths, fi, stage>>
    /\ UNCHANGED <<litvars, spvars, genvars, anvars, scvars, psvars, ast, opts, arch,
                   obj_paths>>

\* exec_cc1 returns; main stops under -S
Cc1Collect ==
    /\ main_pc = "exec_cc1"
    /\ fi > Len(opts.files)
    /\ main_pc' = IF opts.compile_only THEN "returned" ELSE "check_target"
    /\ UNCHANGED <<litvars, spvars, genvars, anvars, scvars, psvars, ast, opts, arch, fi,
                   stage, asm_paths, obj_paths, events, panic>>

\* check_target(&target)
CheckTarget ==
    /\ main_pc = "check_target"
    /\ events' = Append(events, Event("check_target", 0))
    /\ \E r \in {check_target(opts.target, is_aarch64)} :
          IF r # ""
          THEN /\ main_pc' = "panicked"
               /\ panic' = r
               /\ UNCHANGED fi
          ELSE /\ main_pc' = "run_assembler"
               /\ fi' = 1
               /\ UNCHANGED panic
    /\ UNCHANGED <<litvars, spvars, genvars, anvars, scvars, psvars, ast, opts, arch,
                   stage, asm_paths, obj_paths>>

\* run_assembler: /usr/bin/as for the assembly file at fi
RunAssembler ==
    /\ main_pc = "run_assembler"
    /\ fi <= Len(asm_paths)
    /\ \E status \in ExitStatuses :
          /\ events' = Append(events, [op |-> "as", unit |-> asm_paths[fi].unit,
                                       status |-> status])
          /\ \E r \in {ensure_success(status,
                                      "failed to assembler with asm files")} :
                IF r # ""
                THEN /\ main_pc' = "panicked"
                     /\ panic' = r
                     /\ UNCHANGED <<fi, obj_paths>>
                ELSE /\ obj_paths' =
                          Append(obj_paths,
                                 new_output(asm_paths[fi].unit, "o",
                                            ~opts.complie_as_only))
                     /\ fi' = fi + 1
                     /\ UNCHANGED <<main_pc, panic>>
    /\ UNCHANGED <<litvars, spvars, genvars, anvars, scvars, psvars, ast, opts, arch,
                   stage, asm_paths>>

\* run_assembler returns; main stops under -c
AssemblerCollect ==
    /\ main_pc = "run_assembler"
    /\ fi > Len(asm_paths)
    /\ main_pc' = IF opts.complie_as_only THEN "returned" ELSE "run_linker"
    /\ UNCHANGED <<litvars, spvars, genvars, anvars, scvars, psvars, ast, opts, arch, fi,
                   stage, asm_paths, obj_paths, events, panic>>

\* run_linker: /usr/bin/ld for all the object files
RunLinker ==
    /\ main_pc = "run_linker"
    /\ \E status \in ExitStatuses :
          /\ events' = Append(events, [op |-> "ld", unit |-> 0,
                                       status |-> status])
          /\ \E r \in {ensure_success(status,
                                      "failed to run linker with object files")} :
                IF r # ""
                THEN main_pc' = "panicked" /\ panic' = r
                ELSE main_pc' = "returned" /\ UNCHANGED panic
    /\ UNCHANGED <<litvars, spvars, genvars, anvars, scvars, psvars, ast, opts, arch, fi,
                   stage, asm_paths, obj_paths>>

(***************************************************************************)
(* The command lines handed to main: up to MaxUnits input files, each      *)
(* missing, sound, or aborting one stage of the front-end.                 *)
(***************************************************************************)
InputFiles ==
    {[is_file |-> TRUE, aborts |-> a] :
        a \in {"", "read", "scan", "parse", "analyse", "gen_asm"}}
    \cup {[is_file |-> FALSE, aborts |-> ""]}

OptsSet ==
    {[files |-> fs, compile_only |-> s, complie_as_only |-> c, target |-> t] :
        fs \in UNION {[1..n -> InputFiles] : n \in 1..MaxUnits},
        s \in BOOLEAN, c \in BOOLEAN, t \in TargetOs}

(***************************************************************************)
(* An integer literal on its way through scan_num, parse_int_const_expr    *)
(* and emit_expr, over the whole range of u64.  A u64 or the magnitude of  *)
(* an i64 is kept as three limbs <<h, m, l>> of base 10^8, worth           *)
(* h * 10^16 + m * 10^8 + l; an i64 is a sign and a magnitude.             *)
(***************************************************************************)
Base == 10 ^ 8

Limbs(h, m, l) == <<h, m, l>>

\* u64::MAX + 1 and i64::MAX + 1
TwoTo64 == Limbs(1844, 67440737, 9551616)
TwoTo63 == Limbs(922, 33720368, 54775808)

\* a >= b
LimbsGE(a, b) ==
    \/ a[1] > b[1]
    \/ a[1] = b[1] /\ a[2] > b[2]
    \/ a[1] = b[1] /\ a[2] = b[2] /\ a[3] >= b[3]

\* a - b, for a >= b
LimbsSub(a, b) ==
    Limbs(a[1] - b[1] - (IF a[2] - b[2] - (IF a[3] < b[3] THEN 1 ELSE 0) < 0
                         THEN 1 ELSE 0),
          (a[2] - b[2] - (IF a[3] < b[3] THEN 1 ELSE 0) + Base) % Base,
          (a[3] - b[3] + Base) % Base)

\* the carries of the limbs taken upwards
Carried(a) ==
    Limbs(a[1] + (a[2] + a[3] \div Base) \div Base,
          (a[2] + a[3] \div Base) % Base,
          a[3] % Base)

\* the value modulo 2^64
RECURSIVE wrapping(_)
wrapping(a) == IF LimbsGE(a, TwoTo64) THEN wrapping(LimbsSub(a, TwoTo64)) ELSE a

\* num * 10 and num + d before the width of u64 is applied
times_ten(num) == Carried(Limbs(num[1] * 10, num[2] * 10, num[3] * 10))
plus_digit(num, d) == Carried(Limbs(num[1], num[2], num[3] + d))

\* num = num * 10 + self.char_to_u64(c): the new num, or the panic of a
\* build with overflow checks
accumulate(num, d, checks) ==
    IF checks /\ LimbsGE(times_ten(num), TwoTo64)
    THEN [num |-> num, panic |-> "attempt to multiply with overflow"]
    ELSE IF checks /\ LimbsGE(plus_digit(times_ten(num), d), TwoTo64)
    THEN [num |-> num, panic |-> "attempt to add with overflow"]
    ELSE [num |-> wrapping(plus_digit(wrapping(times_ten(num)), d)),
          panic |-> ""]

\* an i64
I64(neg, mag) == [neg |-> neg, mag |-> mag]

\* a slip: the magnitude is kept as it is
as_u64(v) == I64(FALSE, v)

\* `*v as i64`
as_i64(v) ==
    IF LimbsGE(v, TwoTo63) THEN I64(TRUE, LimbsSub(TwoTo64, v))
    ELSE I64(FALSE, v)

\* the eight digits of a limb below the first one
Padded(x) ==
    ToString((x \div 10 ^ 7) % 10) \o ToString((x \div 10 ^ 6) % 10)
    \o ToString((x \div 10 ^ 5) % 10) \o ToString((x \div 10 ^ 4) % 10)
    \o ToString((x \div 10 ^ 3) % 10) \o ToString((x \div 10 ^ 2) % 10)
    \o ToString((x \div 10) % 10) \o ToString(x % 10)

\* Display for i64
I64Display(v) ==
    (IF v.neg THEN "-" ELSE "")
    \o (IF v.mag[1] > 0
        THEN ToString(v.mag[1]) \o Padded(v.mag[2]) \o Padded(v.mag[3])
        ELSE IF v.mag[2] > 0 THEN ToString(v.mag[2]) \o Padded(v.mag[3])
        ELSE ToString(v.mag[3]))

\* scan_token: the digit arm calls scan_num(c), which starts scan_pos_num
\* with the digit as prefix
LitScanNum ==
    /\ lit_pc = "scan_num"
    /\ lit_num' = Limbs(0, 0, char_to_u64(Head(lit_chars)))
    /\ lit_chars' = Tail(lit_chars)
    /\ lit_pc' = "scan_pos_num"
    /\ UNCHANGED <<drvars, spvars, genvars, anvars, scvars, psvars, ast, lit_src,
                   lit_tok, lit_expr, lit_asm, overflow_checks, panic>>

\* scan_pos_num: an iteration of its loop that reads a digit
LitScanDigit ==
    /\ lit_pc = "scan_pos_num"
    /\ lit_chars # <<>>
    /\ \E r \in {accumulate(lit_num, char_to_u64(Head(lit_chars)),
                            overflow_checks)} :
          IF r.panic # ""
          THEN /\ lit_pc' = "panicked"
               /\ panic' = r.panic
               /\ UNCHANGED <<lit_num, lit_chars>>
          ELSE /\ lit_num' = r.num
               /\ lit_chars' = Tail(lit_chars)
               /\ UNCHANGED <<lit_pc, panic>>
    /\ UNCHANGED <<drvars, spvars, genvars, anvars, scvars, psvars, ast, lit_src,
                   lit_tok, lit_expr, lit_asm, overflow_checks>>

\* scan_pos_num and scan_num read None: TokType::NumInt(num1)
LitScanEnd ==
    /\ lit_pc = "scan_pos_num"
    /\ lit_chars = <<>>
    /\ lit_tok' = Some(NumInt(lit_num))
    /\ lit_pc' = "scanned"
    /\ UNCHANGED <<drvars, spvars, genvars, anvars, scvars, psvars, ast, lit_src,
                   lit_chars, lit_num, lit_expr, lit_asm, overflow_checks, panic>>

\* parse_int_const_expr: Expr::IntConst(*v as i64)
LitParse ==
    /\ lit_pc = "scanned"
    /\ lit_expr' = Some(IntConst(as_i64(Unwrap(lit_tok).v)))
    /\ lit_pc' = "parsed"
    /\ UNCHANGED <<drvars, spvars, genvars, anvars, scvars, psvars, ast, lit_src,
                   lit_chars, lit_num, lit_tok, lit_asm, overflow_checks, panic>>

\* emit_expr(IntConst(v), Some(X0)): format!("mov {}, #{}", r, v)
LitEmit ==
    /\ lit_pc = "parsed"
    /\ lit_asm' = ptab("mov " \o RegDisplay("X0") \o ", #"
                       \o I64Display(Unwrap(lit_expr).v))
    /\ lit_pc' = "emitted"
    /\ UNCHANGED <<drvars, spvars, genvars, anvars, scvars, psvars, ast, lit_src,
                   lit_chars, lit_num, lit_tok, lit_expr, overflow_checks, panic>>

(***************************************************************************)
(* The literals: every run of up to MaxDigits digits out of 0, 1 and 9,    *)
(* and runs around 2^31, 2^32, 10^8, 2^63 and 2^64.                        *)
(***************************************************************************)
ShortLiterals == UNION {[1..n -> {"0", "1", "9"}] : n \in 1..MaxDigits}

LongLiterals ==
    {<<"9", "2", "2", "3", "3", "7", "2", "0", "3", "6", "8", "5", "4", "7", "7", "5", "8", "0", "7">>,
     <<"9", "2", "2", "3", "3", "7", "2", "0", "3", "6", "8", "5", "4", "7", "7", "5", "8", "0", "8">>,
     <<"9", "2", "2", "3", "3", "7", "2", "0", "3", "6", "8", "5", "4", "7", "7", "5", "8", "0", "9">>,
     <<"1", "8", "4", "4", "6", "7", "4", "4", "0", "7", "3", "7", "0", "9", "5", "5", "1", "6", "1", "5">>,
     <<"1", "8", "4", "4", "6", "7", "4", "4", "0", "7", "3", "7", "0", "9", "5", "5", "1", "6", "1", "6">>,
     <<"1", "8", "4", "4", "6", "7", "4", "4", "0", "7", "3", "7", "0", "9", "5", "5", "1", "6", "2", "0">>,
     <<"0", "0", "1", "8", "4", "4", "6", "7", "4", "4", "0", "7", "3", "7", "0", "9", "5", "5", "1", "6", "1", "5">>,
     <<"1", "0", "0", "0", "0", "0", "0", "0", "0", "0", "0", "0", "0", "0", "0", "0", "0", "0", "0", "0">>,
     <<"9", "9", "9", "9", "9", "9", "9", "9", "9", "9", "9", "9", "9", "9", "9", "9", "9", "9", "9", "9">>,
     <<"1", "8", "4", "4", "6", "7", "4", "4", "0", "7", "3", "7", "0", "9", "5", "5", "1", "6", "1">>,
     <<"1", "8", "4", "4", "6", "7", "4", "4", "0", "7", "3", "7", "0", "9", "5", "5", "1", "6", "2">>,
     <<"4", "2", "9", "4", "9", "6", "7", "2", "9", "6">>,
     <<"2", "1", "4", "7", "4", "8", "3", "6", "4", "8">>,
     <<"1", "0", "0", "0", "0", "0", "0", "0", "0">>,
     <<"0", "0", "0", "0", "0", "0", "0", "0", "0", "0", "0", "0", "0", "0", "0", "0", "0", "0", "0", "0", "0", "0">>,
     <<"1", "2", "3", "4", "5", "6", "7", "8", "9", "0", "1", "2", "3", "4", "5", "6", "7", "8", "9", "0">>,
     <<"3", "4", "0", "2", "8", "2", "3", "6", "6", "9", "2", "0", "9", "3", "8", "4", "6", "3", "4", "6", "3">>}

Literals == ShortLiterals \cup LongLiterals

(***************************************************************************)
(* The programs handed to gen_asm.                                         *)
(***************************************************************************)
Leaves ==
    {IntConst(1), IntConst(-1), VarRef("x"),
     Arith(IntConst(1), "Add", IntConst(2))}

\* n arguments: the constant i at place i, except `hole` at place pos
ArgList(n, pos, hole) == [i \in 1..n |-> IF i = pos THEN hole ELSE IntConst(i)]

ArgCounts == {0, 1, 2, Len(ARG_REGS), MaxArgs}

\* the argument lists whose one hole is drawn from `holes`
ArgLists(holes) ==
    UNION {{ArgList(n, pos, h) : pos \in {1, n}, h \in holes} : n \in ArgCounts}

RECURSIVE Exprs(_)
Exprs(d) ==
    IF d = 0 THEN Leaves
    ELSE Leaves \cup {FunctionCall("foo", as) : as \in ArgLists(Exprs(d - 1))}

TopExprs ==
    Leaves \cup
    {FunctionCall(nm, as) :
       nm \in {"foo", "bar"}, as \in ArgLists(Exprs(MaxDepth - 1))}

RichBodies ==
    {<<StmtReturn(Some(e))>> : e \in TopExprs}
    \cup {<<StmtExpr(e)>> : e \in TopExprs}

SimpleStmts ==
    {StmtReturn(None), StmtReturn(Some(IntConst(1))), StmtExpr(IntConst(2)),
     StmtReturn(Some(FunctionCall("foo", <<IntConst(3), IntConst(4)>>))),
     StmtVarDecl("Int", "a", Some(IntConst(100))),
     StmtAssignment("a", IntConst(1)),
     StmtCompound(<<StmtReturn(Some(IntConst(1)))>>)}

PlainBodies == UNION {[1..n -> SimpleStmts] : n \in 0..MaxStmts}

ParamName(i) == "p" \o ToString(i)
IntParams(n) == [i \in 1..n |-> ParamDecl("Int", ParamName(i))]
ParamsWith(n, pos, dt) ==
    [i \in 1..n |-> ParamDecl(IF i = pos THEN dt ELSE "Int", ParamName(i))]

ParamLists ==
    {IntParams(n) : n \in 0..MaxParams}
    \cup UNION {{ParamsWith(n, pos, dt) : pos \in {1, n}, dt \in {"Void", "Float"}} :
                   n \in {1, 2, MaxParams}}

GenFuncs ==
    {FuncDecl("Int", "foo", ps, CmpStmt(b)) : ps \in ParamLists, b \in PlainBodies}
    \cup {FuncDecl("Int", "main", <<>>, CmpStmt(b)) : b \in RichBodies}

MainOne == FuncDecl("Int", "main", <<>>, CmpStmt(<<StmtReturn(Some(IntConst(1)))>>))

GenAsts ==
    {<<f>> : f \in GenFuncs}
    \cup {<<GlobalVarDecl("Int", "g", init), FuncDecl("Void", "foo", ps, CmpStmt(b)),
            MainOne>> :
            init \in {None, Some(IntConst(101))}, ps \in ParamLists,
            b \in {<<>>, <<StmtReturn(None)>>, <<StmtAssignment("a", IntConst(1))>>}}
    \cup {<<>>, <<GlobalVarDecl("Int", "g", None)>>}
    \cup {<<MainOne, GlobalVarDecl("Int", "g", init),
            FuncDecl("Void", "foo", <<>>, CmpStmt(<<StmtExpr(e)>>)),
            GlobalVarDecl("Int", "h", None)>> :
            init \in {None, Some(IntConst(101))},
            e \in {IntConst(2), FunctionCall("main", <<>>)}}
    \* a frame around calls in the arguments of calls
    \cup {<<FuncDecl("Int", "bar", IntParams(n),
                     CmpStmt(<<StmtExpr(FunctionCall("foo", as)),
                               StmtReturn(Some(FunctionCall("bar",
                                   <<FunctionCall("foo", <<IntConst(2)>>),
                                     FunctionCall("foo", <<>>)>>)))>>))>> :
            n \in {1, 4, 5, MaxParams},
            as \in {ArgList(2, pos, FunctionCall("foo", <<IntConst(7)>>)) :
                       pos \in {1, 2}}}

(***************************************************************************)
(* The programs handed to analyse: a global g, a function f and a second   *)
(* top-level declaration, the body of f being any nest of blocks and       *)
(* declarations of g and f with at most MaxNodes statements.               *)
(***************************************************************************)
LocalNames == {"g", "f"}

RECURSIVE Forests(_), Trees(_)
\* the statement lists with n statements in all, nested ones included
Forests(n) ==
    IF n = 0 THEN {<<>>}
    ELSE UNION {{<<t>> \o rest : t \in Trees(k), rest \in Forests(n - k)} :
                  k \in 1..n}
\* the statements that are, with what they contain, n statements
Trees(n) ==
    IF n = 1
    THEN {StmtVarDecl("Int", nm, None) : nm \in LocalNames}
         \cup {StmtCompound(<<>>)}
    ELSE {StmtCompound(f) : f \in Forests(n - 1)}

AnBodies == UNION {Forests(n) : n \in 0..MaxNodes}

AnAsts ==
    {<<GlobalVarDecl("Int", "g", None), FuncDecl("Void", "f", <<>>, CmpStmt(b))>> :
       b \in AnBodies}
    \cup {<<FuncDecl("Void", "f", <<ParamDecl("Int", "g")>>, CmpStmt(b)), second>> :
            b \in UNION {Forests(n) : n \in 0..2}
                   \cup {<<StmtReturn(None), StmtVarDecl("Int", "g", None),
                            StmtAssignment("g", IntConst(1)),
                            StmtExpr(VarRef("g"))>>},
            second \in {GlobalVarDecl("Int", "f", None),
                        GlobalVarDecl("Int", "h", None),
                        FuncDecl("Int", "f", <<>>, CmpStmt(<<>>)),
                        FuncDecl("Int", "h", <<>>,
                                 CmpStmt(<<StmtVarDecl("Int", "g", None),
                                           StmtVarDecl("Int", "g", None)>>))}}
    \cup {<<GlobalVarDecl("Int", "g", None), second>> :
            second \in {GlobalVarDecl("Int", "g", Some(IntConst(1))),
                        FuncDecl("Int", "g", <<>>, CmpStmt(<<>>))}}

(***************************************************************************)
(* Initial states and specifications, one per entry point.                 *)
(***************************************************************************)
(***************************************************************************)
(* The texts handed to scan.                                               *)
(***************************************************************************)
ScanAlphabet == {"a", "1", " ", "\n", "(", ";", ",", ".", "@", "_"}
ShortSources == UNION {[1..n -> ScanAlphabet] : n \in 0..MaxSrcLen}

\* the texts of the tests of scan.rs and of pass_program (parse.rs), and one
\* with the operators and a line break
TestSources ==
    {
      \* int return void main
      <<"i", "n", "t", " ", "r", "e", "t", "u", "r", "n", " ", "v", "o",
        "i", "d", " ", "m", "a", "i", "n">>,
      \* 1 1.1 0 0.2
      <<"1", " ", "1", ".", "1", " ", "0", " ", "0", ".", "2">>,
      \* a var1
      <<"a", " ", "v", "a", "r", "1">>,
      \* int () ( ) {} { } ; =
      <<"i", "n", "t", " ", "(", ")", " ", "(", " ", ")", " ", "{", "}",
        " ", "{", " ", "}", " ", ";", " ", "=">>,
      \* int main() { return 1; }
      <<"i", "n", "t", " ", "m", "a", "i", "n", "(", ")", " ", "{", " ",
        "r", "e", "t", "u", "r", "n", " ", "1", ";", " ", "}">>,
      \* int main() { int a = 100; return 1; }
      <<"i", "n", "t", " ", "m", "a", "i", "n", "(", ")", " ", "{", " ",
        "i", "n", "t", " ", "a", " ", "=", " ", "1", "0", "0", ";", " ",
        "r", "e", "t", "u", "r", "n", " ", "1", ";", " ", "}">>,
      \* void
      <<"v", "o", "i", "d">>,
      \* voida
      <<"v", "o", "i", "d", "a">>,
      \* void foo(int x, int y) {}
      <<"v", "o", "i", "d", " ", "f", "o", "o", "(", "i", "n", "t", " ",
        "x", ",", " ", "i", "n", "t", " ", "y", ")", " ", "{", "}">>,
      \* void foo() { int a = undefined(x, 3); }
      <<"v", "o", "i", "d", " ", "f", "o", "o", "(", ")", " ", "{", " ",
        "i", "n", "t", " ", "a", " ", "=", " ", "u", "n", "d", "e", "f",
        "i", "n", "e", "d", "(", "x", ",", " ", "3", ")", ";", " ",
        "}">>,
      \* a - 1 + b\n}{
      <<"a", " ", "-", " ", "1", " ", "+", " ", "b", "\n", "}", "{">>
    }

\* programs without a comma that parse: those of pass_program and
\* parse_global, and four more that use the rest of the grammar
PassTexts ==
    {
      \* int main() { return 1; }
      <<"i", "n", "t", " ", "m", "a", "i", "n", "(", ")", " ", "{", " ",
        "r", "e", "t", "u", "r", "n", " ", "1", ";", " ", "}">>,
      \* int main() { }
      <<"i", "n", "t", " ", "m", "a", "i", "n", "(", ")", " ", "{", " ",
        "}">>,
      \* int main() { int a = 100; return 1; }
      <<"i", "n", "t", " ", "m", "a", "i", "n", "(", ")", " ", "{", " ",
        "i", "n", "t", " ", "a", " ", "=", " ", "1", "0", "0", ";", " ",
        "r", "e", "t", "u", "r", "n", " ", "1", ";", " ", "}">>,
      \* void test() { int a = 3; return a; }
      <<"v", "o", "i", "d", " ", "t", "e", "s", "t", "(", ")", " ", "{",
        " ", "i", "n", "t", " ", "a", " ", "=", " ", "3", ";", " ", "r",
        "e", "t", "u", "r", "n", " ", "a", ";", " ", "}">>,
      \* void foo() { undefined(3); }
      <<"v", "o", "i", "d", " ", "f", "o", "o", "(", ")", " ", "{", " ",
        "u", "n", "d", "e", "f", "i", "n", "e", "d", "(", "3", ")", ";",
        " ", "}">>,
      \* int g = 101; void foo() { int a = g;}
      <<"i", "n", "t", " ", "g", " ", "=", " ", "1", "0", "1", ";", " ",
        "v", "o", "i", "d", " ", "f", "o", "o", "(", ")", " ", "{", " ",
        "i", "n", "t", " ", "a", " ", "=", " ", "g", ";", "}">>,
      \* int g = 101; void foo() { int g = 2; { int g = 3; }}
      <<"i", "n", "t", " ", "g", " ", "=", " ", "1", "0", "1", ";", " ",
        "v", "o", "i", "d", " ", "f", "o", "o", "(", ")", " ", "{", " ",
        "i", "n", "t", " ", "g", " ", "=", " ", "2", ";", " ", "{", " ",
        "i", "n", "t", " ", "g", " ", "=", " ", "3", ";", " ", "}",
        "}">>,
      \* int g;\nint f() { return; }
      <<"i", "n", "t", " ", "g", ";", "\n", "i", "n", "t", " ", "f",
        "(", ")", " ", "{", " ", "r", "e", "t", "u", "r", "n", ";", " ",
        "}">>,
      \* int f() { g(h(1)); 2; x; }
      <<"i", "n", "t", " ", "f", "(", ")", " ", "{", " ", "g", "(", "h",
        "(", "1", ")", ")", ";", " ", "2", ";", " ", "x", ";", " ",
        "}">>
    }

\* the texts of failed_program
FailedTexts ==
    {
      \* main
      <<"m", "a", "i", "n">>,
      \* int main
      <<"i", "n", "t", " ", "m", "a", "i", "n">>,
      \* int test {
      <<"i", "n", "t", " ", "t", "e", "s", "t", " ", "{">>,
      \* int test() {
      <<"i", "n", "t", " ", "t", "e", "s", "t", "(", ")", " ", "{">>,
      \* int main() { return 1 }
      <<"i", "n", "t", " ", "m", "a", "i", "n", "(", ")", " ", "{", " ",
        "r", "e", "t", "u", "r", "n", " ", "1", " ", "}">>
    }

\* texts with the keywords, what is next to a keyword, and runs that are ended
\* by every kind of character
KeywordSources ==
    {
      \* in int inta int1 int_ Int
      <<"i", "n", " ", "i", "n", "t", " ", "i", "n", "t", "a", " ", "i",
        "n", "t", "1", " ", "i", "n", "t", "_", " ", "I", "n", "t">>,
      \* return returns retur void voids vo1d
      <<"r", "e", "t", "u", "r", "n", " ", "r", "e", "t", "u", "r", "n",
        "s", " ", "r", "e", "t", "u", "r", " ", "v", "o", "i", "d", " ",
        "v", "o", "i", "d", "s", " ", "v", "o", "1", "d">>,
      \* int(void;return=a1_b-c2+x
      <<"i", "n", "t", "(", "v", "o", "i", "d", ";", "r", "e", "t", "u",
        "r", "n", "=", "a", "1", "_", "b", "-", "c", "2", "+", "x">>,
      \* 1a a1 1int int1\nvoid\nreturn
      <<"1", "a", " ", "a", "1", " ", "1", "i", "n", "t", " ", "i", "n",
        "t", "1", "\n", "v", "o", "i", "d", "\n", "r", "e", "t", "u",
        "r", "n">>
    }

Sources == ShortSources \cup TestSources \cup KeywordSources

(***************************************************************************)
(* scan as a function of its text: the tokens collected, or the panic.     *)
(***************************************************************************)
RECURSIVE scan_collect(_, _)
scan_collect(S, acc) ==
    Only({ IF r.panic # "" THEN [toks |-> <<>>, panic |-> r.panic]
           ELSE IF IsSome(r.res)
                THEN scan_collect(r.s, Append(acc, Unwrap(r.res)))
           ELSE [toks |-> acc, panic |-> ""] :
           r \in {scan_token(S)} })

scan(text) ==
    scan_collect([chars |-> text, lookahead |-> None, line |-> 1, col |-> 1],
                 <<>>)

(***************************************************************************)
(* The token vectors handed to parse: what scan returns for the texts of   *)
(* the tests, two programs with commas, and every program cut short, with  *)
(* one token taken out, or with one token replaced.                        *)
(***************************************************************************)
Scanned(texts) == {scan(t).toks : t \in texts}

\* the tokens of a one-line text whose tokens are one blank apart
RECURSIVE TokLine(_, _)
TokLine(kinds, column) ==
    IF kinds = <<>> THEN <<>>
    ELSE <<Token(Head(kinds)[1], 1, column)>>
         \o TokLine(Tail(kinds), column + Head(kinds)[2] + 1)

CommaPrograms ==
    { \* void foo ( int x , int y ) { }
      TokLine(<< <<KeywordVoid, 4>>, <<ID("foo"), 3>>, <<ParentOpen, 1>>,
                 <<KeywordInt, 3>>, <<ID("x"), 1>>, <<Comma, 1>>,
                 <<KeywordInt, 3>>, <<ID("y"), 1>>, <<ParentClose, 1>>,
                 <<BracketOpen, 1>>, <<BracketClose, 1>> >>, 1),
      \* void foo ( ) { int a = undefined ( x , 3 ) ; }
      TokLine(<< <<KeywordVoid, 4>>, <<ID("foo"), 3>>, <<ParentOpen, 1>>,
                 <<ParentClose, 1>>, <<BracketOpen, 1>>, <<KeywordInt, 3>>,
                 <<ID("a"), 1>>, <<Assign, 1>>, <<ID("undefined"), 9>>,
                 <<ParentOpen, 1>>, <<ID("x"), 1>>, <<Comma, 1>>,
                 <<NumInt(3), 1>>, <<ParentClose, 1>>, <<Semicolon, 1>>,
                 <<BracketClose, 1>> >>, 1),
      \* int g ; int h = f ( 1 ) ; int f ( int x , int y )
      \* { return f ( y , h ( ) ) ; }
      TokLine(<< <<KeywordInt, 3>>, <<ID("g"), 1>>, <<Semicolon, 1>>,
                 <<KeywordInt, 3>>, <<ID("h"), 1>>, <<Assign, 1>>,
                 <<ID("f"), 1>>, <<ParentOpen, 1>>, <<NumInt(1), 1>>,
                 <<ParentClose, 1>>, <<Semicolon, 1>>,
                 <<KeywordInt, 3>>, <<ID("f"), 1>>, <<ParentOpen, 1>>,
                 <<KeywordInt, 3>>, <<ID("x"), 1>>, <<Comma, 1>>,
                 <<KeywordInt, 3>>, <<ID("y"), 1>>, <<ParentClose, 1>>,
                 <<BracketOpen, 1>>, <<KeywordReturn, 6>>, <<ID("f"), 1>>,
                 <<ParentOpen, 1>>, <<ID("y"), 1>>, <<Comma, 1>>,
                 <<ID("h"), 1>>, <<ParentOpen, 1>>, <<ParentClose, 1>>,
                 <<ParentClose, 1>>, <<Semicolon, 1>>,
                 <<BracketClose, 1>> >>, 1) }

PassTokens == Scanned(PassTexts) \cup CommaPrograms

StrayToks ==
    {Semicolon, BracketClose, ParentOpen, KeywordInt, ID("main"), NumInt(1),
     Plus, Comma, NumReal(1, 0, 0)}

Prefixes(ts) == {SubSeq(ts, 1, n) : n \in 0..Len(ts)}
Deletions(ts) ==
    {SubSeq(ts, 1, i - 1) \o SubSeq(ts, i + 1, Len(ts)) : i \in 1..Len(ts)}
Replacements(ts) ==
    {[ts EXCEPT ![i] = Token(k, @.loc[1], @.loc[2])] :
        i \in 1..Len(ts), k \in StrayToks}

ParseInputs ==
    Scanned(FailedTexts)
    \cup UNION {Prefixes(ts) \cup Deletions(ts) \cup Replacements(ts) :
                   ts \in PassTokens}

LitIdle ==
    /\ lit_src = <<>> /\ lit_chars = <<>> /\ lit_num = <<>> /\ lit_tok = None
    /\ lit_expr = None /\ lit_asm = <<>> /\ lit_pc = "idle"
    /\ overflow_checks = FALSE
DrIdle ==
    /\ opts = <<>> /\ arch = "" /\ main_pc = "idle" /\ fi = 0 /\ stage = ""
    /\ asm_paths = <<>> /\ obj_paths = <<>> /\ events = <<>>
SpIdle == sp_size = None /\ sp_ret = None
GenIdle ==
    /\ target = "Other" /\ str = <<>> /\ gi = 0 /\ mark = 0
    /\ gen_pc = "idle" /\ asm = None
AnIdle ==
    /\ table = <<>> /\ ai = 0 /\ an_pc = "idle"
    /\ an_log = <<>> /\ an_runs = 0
ScIdle ==
    /\ source = <<>> /\ chars = <<>> /\ lookahead = None /\ line = 0 /\ col = 0
    /\ toks = <<>> /\ sc_pc = "idle"
PsIdle == tokens = <<>> /\ index = 0 /\ ext_decls = <<>> /\ ps_pc = "idle"

\* gen_util::get_sp_offset(size)
SpInit ==
    /\ sp_size \in 0..MaxSize
    /\ sp_ret = None
    /\ ast = <<>>
    /\ GenIdle /\ AnIdle /\ ScIdle /\ PsIdle /\ DrIdle /\ LitIdle
    /\ panic = ""

\* gen_asm(&ast, &target): ArmGen::new
GenInit ==
    /\ ast \in GenAsts
    /\ target \in TargetOs
    /\ str = <<>> /\ gi = 0 /\ mark = 0
    /\ gen_pc = "new"
    /\ asm = None
    /\ SpIdle /\ AnIdle /\ ScIdle /\ PsIdle /\ DrIdle /\ LitIdle
    /\ panic = ""

\* analyse(&mut ast)
AnInit ==
    /\ ast \in AnAsts
    /\ table = <<>> /\ ai = 0
    /\ an_pc = "new"
    /\ an_log = <<>> /\ an_runs = 0
    /\ SpIdle /\ GenIdle /\ ScIdle /\ PsIdle /\ DrIdle /\ LitIdle
    /\ panic = ""

\* scan(src)
ScInit ==
    /\ source \in Sources
    /\ chars = <<>> /\ lookahead = None /\ line = 0 /\ col = 0
    /\ toks = <<>>
    /\ sc_pc = "new"
    /\ ast = <<>>
    /\ SpIdle /\ GenIdle /\ AnIdle /\ PsIdle /\ DrIdle /\ LitIdle
    /\ panic = ""

\* parse(tokens)
PsInit ==
    /\ tokens \in ParseInputs
    /\ index = 0 /\ ext_decls = <<>>
    /\ ps_pc = "new"
    /\ ast = <<>>
    /\ SpIdle /\ GenIdle /\ AnIdle /\ ScIdle /\ DrIdle /\ LitIdle
    /\ panic = ""

\* main, after parse_opts and init_logger
DrInit ==
    /\ opts \in OptsSet
    /\ arch \in {"aarch64", "x86_64"}
    /\ main_pc = "ensure_input_exist"
    /\ fi = 0 /\ stage = ""
    /\ asm_paths = <<>> /\ obj_paths = <<>> /\ events = <<>>
    /\ ast = <<>>
    /\ SpIdle /\ GenIdle /\ AnIdle /\ ScIdle /\ PsIdle /\ LitIdle
    /\ panic = ""

\* scan_token has read the first digit of a literal
LitInit ==
    /\ lit_src \in Literals
    /\ lit_chars = lit_src
    /\ lit_num = <<>> /\ lit_tok = None /\ lit_expr = None /\ lit_asm = <<>>
    /\ lit_pc = "scan_num"
    /\ overflow_checks \in BOOLEAN
    /\ ast = <<>>
    /\ SpIdle /\ GenIdle /\ AnIdle /\ ScIdle /\ PsIdle /\ DrIdle
    /\ panic = ""

SpNext == CallGetSpOffset
LitNext == LitScanNum \/ LitScanDigit \/ LitScanEnd \/ LitParse \/ LitEmit
DrNext ==
    \/ EnsureInputExist \/ Cc1Stage \/ Cc1Write \/ Cc1Collect \/ CheckTarget
    \/ RunAssembler \/ AssemblerCollect \/ RunLinker
GenNext == GenBegin \/ GenExtFunc \/ GenExtGlobal \/ GenReturn
AnNext == AnalyseBegin \/ AnalyseExt \/ AnalyseEnd
ScNext == ScanBegin \/ ScanNext
PsNext == ParseBegin \/ ParseExtDecl \/ ParseReturn

SpecSp == SpInit /\ [][SpNext]_vars
SpecGen == GenInit /\ [][GenNext]_vars
SpecAnalyse == AnInit /\ [][AnNext]_vars
SpecScan == ScInit /\ [][ScNext]_vars
SpecParse == PsInit /\ [][PsNext]_vars

\* parse is a sequential loop: it keeps taking its next step until it
\* returns or panics
SpecParseFair == PsInit /\ [][PsNext]_vars /\ WF_vars(PsNext)

SpecDriver == DrInit /\ [][DrNext]_vars
SpecLiteral == LitInit /\ [][LitNext]_vars

Init == SpInit \/ GenInit \/ AnInit \/ ScInit \/ PsInit \/ DrInit \/ LitInit
Next == SpNext \/ GenNext \/ AnNext \/ ScNext \/ PsNext \/ DrNext \/ LitNext
Spec == Init /\ [][Next]_vars

(***************************************************************************)
(* What the claims are stated with.                                        *)
(***************************************************************************)
\* gen_func has just returned for LastFunc, and Block is what it pushed
HasBlock == gen_pc \in {"iter", "returned"} /\ gi > 1 /\ ast[gi - 1].k = "Func"
LastFunc == ast[gi - 1]
Block == SubSeq(str, mark + 1, Len(str))

AllInt(params) == \A i \in 1..Len(params) : params[i].data_type = "Int"

\* the symbol of a source name, as the naming law states it
Sym(name) == IF target = "MacOs" THEN "_" \o name ELSE name

\* 16 * ceil(4n / 16), the frame of n Int parameters
FrameOf(n) == 16 * ((4 * n + 15) \div 16)
MaxFrame == FrameOf(MaxParams) + 16

SubLine(f) == "\tsub sp, sp, #" \o ToString(f)
AddLine(f) == "\tadd sp, sp, #" \o ToString(f)
StrLine(r, off) == "\tstr x" \o ToString(r) \o ", [sp, #" \o ToString(off) \o "]"
SubLines == {SubLine(f) : f \in 0..MaxFrame}
AddLines == {AddLine(f) : f \in 0..MaxFrame}
StrLines == {StrLine(r, off) : r \in 0..8, off \in -4..MaxFrame}
RetLine == "\tret"
StpLine == "\tstp x29, x30, [sp, #-16]!"
MovFpLine == "\tmov x29, sp"
LdpLine == "\tldp x29, x30, [sp], #16"

\* the lines that are no part of a body's code
FrameLines ==
    SubLines \cup AddLines \cup StrLines \cup {RetLine, "", "\t.p2align 2"}

Count(seq, lines) == Cardinality({i \in 1..Len(seq) : seq[i] \in lines})

\* the lines of Block between the parameter stores and the epilogue
BodyCode ==
    LET n == Len(LastFunc.params)
        pre == (IF FrameOf(n) > 0 THEN 1 ELSE 0) + Min(8, n)
        post == IF FrameOf(n) > 0 THEN 1 ELSE 0
    IN SubSeq(Block, 4 + pre, Len(Block) - 2 - post)

(* The call sequence as the specification words it: save pair, set frame   *)
(* pointer, arguments left to right into x0.., bl, restore pair, and the   *)
(* move of the result when a destination other than x0 was asked for.      *)
(* d is the destination register's name, "" when none is requested.        *)
RECURSIVE CallSeq(_, _), ArgSeq(_, _)
CallSeq(e, d) ==
    <<StpLine, MovFpLine>> \o ArgSeq(e.args, 1)
    \o <<"\tbl " \o Sym(e.name), LdpLine>>
    \o (IF d # "" /\ d # "x0" THEN <<"\tmov " \o d \o ", x0">> ELSE <<>>)
ArgSeq(args, i) ==
    IF i > Min(8, Len(args)) THEN <<>>
    ELSE (IF args[i].k = "IntConst"
          THEN <<"\tmov x" \o ToString(i - 1) \o ", #" \o ToString(args[i].v)>>
          ELSE CallSeq(args[i], "x" \o ToString(i - 1)))
         \o ArgSeq(args, i + 1)

\* an expression the generator lowers without a panic
RECURSIVE Lowerable(_)
Lowerable(e) ==
    \/ e.k = "IntConst"
    \/ /\ e.k = "FunctionCall"
       /\ \A i \in 1..Min(8, Len(e.args)) : Lowerable(e.args[i])

\* the names called by the lowered part of an expression
RECURSIVE Callees(_)
Callees(e) ==
    IF e.k # "FunctionCall" THEN {}
    ELSE {e.name} \cup UNION {Callees(e.args[i]) : i \in 1..Min(8, Len(e.args))}

StmtCallees(st) ==
    CASE st.k = "Return" -> IF IsSome(st.expr) THEN Callees(Unwrap(st.expr)) ELSE {}
      [] st.k = "Expr" -> Callees(st.expr)
      [] OTHER -> {}

FuncCallees(f) ==
    UNION {StmtCallees(f.cmp_stmt.stmts[i]) : i \in 1..Len(f.cmp_stmt.stmts)}

FuncNames == {"foo", "bar", "main"}
BlLines == {"\tbl " \o pre \o nm : pre \in {"", "_", "__"}, nm \in FuncNames}

(***************************************************************************)
(* C1: for every size S, get_sp_offset(S) is the least multiple of 16      *)
(* that is >= S (16 * ceil(S/16)), it is 0 exactly when S = 0, and         *)
(* 0->0, 10->16, 16->16, 20->32, 32->32, 33->48.                           *)
(***************************************************************************)
C1_FrameSizeLaw ==
    IsSome(sp_ret) =>
        LET S == sp_size
            r == Unwrap(sp_ret)
        IN /\ r % 16 = 0
           /\ r >= S
           /\ r - 16 < S
           /\ (r = 0) <=> (S = 0)
           /\ (S = 10 => r = 16) /\ (S = 16 => r = 16) /\ (S = 20 => r = 32)
           /\ (S = 32 => r = 32) /\ (S = 33 => r = 48)

C1_Witness == sp_size = 33 /\ sp_ret = Some(48)

(***************************************************************************)
(* C2: the .global directive, the label and every bl of a function use     *)
(* the source name with exactly one leading underscore on MacOs and the    *)
(* unmodified name on Linux and Other, also for callees the program does   *)
(* not define; a bl to f names the same symbol as f's label.               *)
(***************************************************************************)
C2_SymbolNaming ==
    HasBlock =>
        /\ Block[1] = "\t.global " \o Sym(LastFunc.name)
        /\ Block[3] = Sym(LastFunc.name) \o ":"
        /\ \A i \in 1..Len(Block) :
             Block[i] \in BlLines =>
                \E nm \in FuncCallees(LastFunc) : Block[i] = "\tbl " \o Sym(nm)
        /\ \A nm \in FuncCallees(LastFunc) :
             \E i \in 1..Len(Block) : Block[i] = "\tbl " \o Sym(nm)
        /\ (target = "MacOs") <=> (Block[3] = "_" \o LastFunc.name \o ":")
        /\ (target # "MacOs") <=> (Block[3] = LastFunc.name \o ":")

\* foo calls itself and an undefined bar on MacOs
C2_Witness ==
    /\ HasBlock /\ target = "MacOs"
    /\ LastFunc.name = "main"
    /\ FuncCallees(LastFunc) = {"foo", "bar"}
    /\ Block[3] = "_main:"
    /\ \E i \in 1..Len(Block) : Block[i] = "\tbl _bar"
    /\ \E i \in 1..Len(Block) : Block[i] = "\tbl _foo"

(***************************************************************************)
(* C4: a function with n Int parameters and frame F = 16*ceil(4n/16) gets  *)
(* exactly min(8, n) str instructions, in declaration order, the i-th      *)
(* (from 0) storing x<i> at F - 4*(i+1), each offset within [0, F).        *)
(***************************************************************************)
C4_ParamSpill ==
    (HasBlock /\ AllInt(LastFunc.params)) =>
        LET n == Len(LastFunc.params)
            F == FrameOf(n)
            first == IF F > 0 THEN 5 ELSE 4
        IN /\ Count(Block, StrLines) = Min(8, n)
           /\ \A i \in 0..(Min(8, n) - 1) :
                /\ Block[first + i] = StrLine(i, F - 4 * (i + 1))
                /\ F - 4 * (i + 1) >= 0
                /\ F - 4 * (i + 1) < F
           /\ \A i, j \in 0..(Min(8, n) - 1) :
                i < j => F - 4 * (i + 1) > F - 4 * (j + 1)
           /\ (n = 2 => /\ F = 16
                        /\ Block[5] = "\tstr x0, [sp, #12]"
                        /\ Block[6] = "\tstr x1, [sp, #8]")

\* nine parameters: eight stores, the last of x7 at 48 - 32
C4_Witness ==
    /\ HasBlock /\ AllInt(LastFunc.params)
    /\ Len(LastFunc.params) = 9
    /\ Block[4] = "\tsub sp, sp, #48"
    /\ Block[12] = "\tstr x7, [sp, #16]"
    /\ Count(Block, StrLines) = 8

(***************************************************************************)
(* C5: a call lowered with destination d emits, in this order, the stp,    *)
(* the mov of x29, the code of the first min(8, |args|) arguments left to  *)
(* right into x0, x1, ..., the bl, the ldp, and `mov d, x0` exactly when   *)
(* a destination other than x0 was requested; nothing of the call comes    *)
(* before the stp or between the bl and the ldp.                           *)
(***************************************************************************)
\* the body is the one statement `return e;` or `e;` with e a lowerable call
SingleCall ==
    /\ HasBlock /\ AllInt(LastFunc.params)
    /\ Len(LastFunc.cmp_stmt.stmts) = 1
    /\ LastFunc.cmp_stmt.stmts[1].k \in {"Return", "Expr"}
    /\ LastFunc.cmp_stmt.stmts[1].expr # None
    /\ LET st == LastFunc.cmp_stmt.stmts[1]
           e == IF st.k = "Return" THEN Unwrap(st.expr) ELSE st.expr
       IN e.k = "FunctionCall" /\ Lowerable(e)
TheCall ==
    LET st == LastFunc.cmp_stmt.stmts[1]
    IN IF st.k = "Return" THEN Unwrap(st.expr) ELSE st.expr
TheDst == IF LastFunc.cmp_stmt.stmts[1].k = "Return" THEN "x0" ELSE ""

C5_CallSequence ==
    SingleCall =>
        /\ BodyCode = CallSeq(TheCall, TheDst)
        /\ BodyCode[1] = StpLine
        /\ BodyCode[2] = MovFpLine
        /\ BodyCode[Len(BodyCode)] = LdpLine
        /\ Count(BodyCode, {StpLine}) = Count(BodyCode, {LdpLine})
        /\ Count(BodyCode, {StpLine}) = Count(BodyCode, BlLines)

\* return f(1, foo(c1, .., c9)): the inner call lowers eight arguments and is
\* moved to x1, the outer call is followed by no move
C5_Witness ==
    /\ SingleCall /\ TheDst = "x0"
    /\ Len(TheCall.args) = 2
    /\ TheCall.args[2].k = "FunctionCall"
    /\ Len(TheCall.args[2].args) = 9
    /\ BodyCode[3] = "\tmov x0, #1"
    /\ BodyCode[4] = StpLine
    /\ BodyCode[Len(BodyCode) - 2] = "\tmov x1, x0"
    /\ BodyCode[Len(BodyCode) - 1] = "\tbl " \o Sym(TheCall.name)
    /\ Len(BodyCode) = 18

(***************************************************************************)
(* C6: every function's output is, in order, `.global <symbol>`,           *)
(* `.p2align 2`, `<symbol>:`, `sub sp, sp, #F` iff F > 0, the parameter    *)
(* stores, the body code, `add sp, sp, #F` with the same F iff F > 0,      *)
(* `ret` and one blank line.  There is exactly one ret, it is the last     *)
(* instruction whatever Return statements the body holds, and sub and add  *)
(* come together with equal amounts or not at all.                         *)
(***************************************************************************)
C6_EmissionOrder ==
    HasBlock =>
        LET n == Len(LastFunc.params)
            F == FrameOf(n)
            k == Min(8, n)
            pre == IF F > 0 THEN 1 ELSE 0
            L == Len(Block)
        IN /\ Block[1] = "\t.global " \o Sym(LastFunc.name)
           /\ Block[2] = "\t.p2align 2"
           /\ Block[3] = Sym(LastFunc.name) \o ":"
           /\ (F > 0) => Block[4] = SubLine(F) /\ Block[L - 2] = AddLine(F)
           /\ Count(Block, SubLines) = pre
           /\ Count(Block, AddLines) = pre
           /\ \A i \in 1..k : Block[3 + pre + i] \in StrLines
           /\ Count(Block, StrLines) = k
           /\ Block[L - 1] = RetLine
           /\ Count(Block, {RetLine}) = 1
           /\ Block[L] = ""
           /\ Count(Block, {""}) = 1
           /\ \A i \in 1..Len(BodyCode) :
                BodyCode[i] \notin FrameLines
           /\ L = 3 + pre + k + Len(BodyCode) + pre + 2

\* two parameters, and a body with two Return statements
C6_Witness ==
    /\ HasBlock
    /\ Len(LastFunc.params) = 2
    /\ LastFunc.cmp_stmt.stmts =
         <<StmtReturn(Some(IntConst(1))), StmtReturn(None)>>
    /\ Block = <<"\t.global " \o Sym("foo"), "\t.p2align 2", Sym("foo") \o ":",
                 "\tsub sp, sp, #16", "\tstr x0, [sp, #12]", "\tstr x1, [sp, #8]",
                 "\tmov x0, #1", "\tadd sp, sp, #16", "\tret", "">>

(***************************************************************************)
(* C7: `return v;` emits exactly `mov x0, #v`; `return;` emits nothing;    *)
(* an expression statement that is a constant emits nothing; the return    *)
(* of a call asks for x0 and emits no `mov x0, x0`.  `int main(){return    *)
(* 1;}` for Linux gives .text, .global main, .p2align 2, main:,            *)
(* mov x0, #1, ret.                                                        *)
(***************************************************************************)
OneStmt == HasBlock /\ AllInt(LastFunc.params) /\ Len(LastFunc.cmp_stmt.stmts) = 1
TheStmt == LastFunc.cmp_stmt.stmts[1]

C7_ConstantLowering ==
    /\ OneStmt =>
         /\ (TheStmt.k = "Return" /\ TheStmt.expr = None) => BodyCode = <<>>
         /\ (TheStmt.k = "Return" /\ TheStmt.expr # None
               /\ Unwrap(TheStmt.expr).k = "IntConst") =>
              BodyCode = <<"\tmov x0, #" \o ToString(Unwrap(TheStmt.expr).v)>>
         /\ (TheStmt.k = "Expr" /\ TheStmt.expr.k = "IntConst") => BodyCode = <<>>
         /\ (TheStmt.k = "Return" /\ TheStmt.expr # None
               /\ Unwrap(TheStmt.expr).k = "FunctionCall") =>
              /\ BodyCode[Len(BodyCode)] = LdpLine
              /\ Count(BodyCode, {"\tmov x0, x0"}) = 0
    /\ (gen_pc = "returned" /\ target = "Linux" /\ ast = <<MainOne>>) =>
         asm = Some(<<"\t.text", "\t.global main", "\t.p2align 2", "main:",
                      "\tmov x0, #1", "\tret", "">>)

\* return foo(foo(..), 2): both calls deliver in x0 and no move follows
C7_Witness ==
    /\ OneStmt
    /\ TheStmt.k = "Return" /\ TheStmt.expr # None
    /\ Unwrap(TheStmt.expr).k = "FunctionCall"
    /\ Len(Unwrap(TheStmt.expr).args) = 2
    /\ Unwrap(TheStmt.expr).args[1].k = "FunctionCall"
    /\ Len(BodyCode) > 6
    /\ gen_pc = "returned"

(***************************************************************************)
(* C9: gen_asm panics with `not supported` and returns no text whenever a  *)
(* function body holds, at its top level, a VarDecl, an Assignment or a    *)
(* nested Compound, or an expression that is lowered (of a Return, of an   *)
(* expression statement, or among the first 8 arguments of a lowered       *)
(* call, at any depth) is a VarRef or an arithmetic expression, or a       *)
(* parameter has a type other than Int.                                    *)
(***************************************************************************)
UnsupportedStmt(st) ==
    \/ st.k \in {"VarDecl", "Assignment", "Compound"}
    \/ st.k = "Return" /\ st.expr # None /\ ~Lowerable(Unwrap(st.expr))
    \/ st.k = "Expr" /\ ~Lowerable(st.expr)

UnsupportedFunc(f) ==
    \/ \E i \in 1..Len(f.params) : f.params[i].data_type # "Int"
    \/ \E i \in 1..Len(f.cmp_stmt.stmts) : UnsupportedStmt(f.cmp_stmt.stmts[i])

NotSupportedMsgs ==
    {"not supported: " \o v :
       v \in {"VarDecl", "Assignment", "Compound", "VarRef", "Arith", "Void",
              "Float"}}

C9_UnsupportedAborts ==
    /\ \A j \in 1..Len(ast) :
         (ast[j].k = "Func" /\ UnsupportedFunc(ast[j])) =>
            /\ gen_pc # "returned"
            /\ asm = None
            /\ gen_pc = "iter" => gi <= j
    /\ gen_pc = "panicked" =>
         /\ panic \in NotSupportedMsgs
         /\ asm = None
         /\ UnsupportedFunc(ast[gi])

\* a VarRef two calls deep, in the eighth argument
C9_Witness ==
    /\ gen_pc = "panicked"
    /\ panic = "not supported: VarRef"
    /\ LET sts == ast[gi].cmp_stmt.stmts
       IN /\ Len(sts) = 1 /\ sts[1].k = "Expr"
          /\ sts[1].expr.k = "FunctionCall"
          /\ Len(sts[1].expr.args) = 9
          /\ sts[1].expr.args[1].k = "FunctionCall"
          /\ Len(sts[1].expr.args[1].args) = 8
          /\ sts[1].expr.args[1].args[8] = VarRef("x")

(***************************************************************************)
(* C3: a compound statement that directly holds two variable declarations  *)
(* of one name always makes analyse abort with a duplicate-declaration     *)
(* error; a name declared again in a nested block (at any depth), in a     *)
(* sibling block, or as a local with the name of a global variable or of   *)
(* a function never makes it abort.                                        *)
(***************************************************************************)
\* the names a statement list declares directly, place by place
DirectDup(stmts) ==
    \E i, j \in 1..Len(stmts) :
        /\ i < j
        /\ stmts[i].k = "VarDecl" /\ stmts[j].k = "VarDecl"
        /\ stmts[i].name = stmts[j].name

\* some block of the nest holds a direct duplicate
RECURSIVE BlockDup(_)
BlockDup(stmts) ==
    \/ DirectDup(stmts)
    \/ \E i \in 1..Len(stmts) : stmts[i].k = "Compound" /\ BlockDup(stmts[i].stmts)

\* a name is declared in a block and again in a block inside it or beside it
RECURSIVE DeclaredIn(_)
DeclaredIn(stmts) ==
    {stmts[i].name : i \in {j \in 1..Len(stmts) : stmts[j].k = "VarDecl"}}
    \cup UNION {DeclaredIn(stmts[i].stmts) :
                  i \in {j \in 1..Len(stmts) : stmts[j].k = "Compound"}}

Shadows(stmts) ==
    \E i, j \in 1..Len(stmts) :
        /\ i # j
        /\ stmts[j].k = "Compound"
        /\ \/ stmts[i].k = "VarDecl" /\ stmts[i].name \in DeclaredIn(stmts[j].stmts)
           \/ /\ stmts[i].k = "Compound"
              /\ DeclaredIn(stmts[i].stmts) \cap DeclaredIn(stmts[j].stmts) # {}

TopDup(decls, upto) ==
    \E i, j \in 1..upto : i < j /\ decls[i].name = decls[j].name

DupLocalMsgs == {nm \o " is already define as local variable" : nm \in LocalNames}
DupTopMsgs ==
    {nm \o " is already define as " \o role :
       nm \in LocalNames \cup {"h"}, role \in {"funcation", "global variable"}}

C3_ScopeUniqueness ==
    /\ an_pc \in {"iter", "returned"} =>
         \A j \in 1..(ai - 1) :
            ast[j].k = "Func" => ~BlockDup(ast[j].cmp_stmt.stmts)
    /\ an_pc = "panicked" =>
         /\ panic \in DupLocalMsgs \cup DupTopMsgs
         /\ panic \in DupLocalMsgs =>
               ast[ai].k = "Func" /\ BlockDup(ast[ai].cmp_stmt.stmts)
         /\ panic \in DupTopMsgs => TopDup(ast, ai)
    /\ (an_pc = "iter" /\ ai > Len(ast)) => ~TopDup(ast, Len(ast))

\* f declares the name of the global or its own name, again in a nested
\* block and in two sibling blocks, and analyse returns
C3_Witness ==
    /\ an_pc = "returned"
    /\ ast[1].k = "Global" /\ ast[1].name = "g"
    /\ ast[2].k = "Func" /\ ast[2].name = "f"
    /\ Shadows(ast[2].cmp_stmt.stmts)
    /\ \E nm \in {"g", "f"} :
          ast[2].cmp_stmt.stmts =
            <<StmtVarDecl("Int", nm, None),
              StmtCompound(<<StmtVarDecl("Int", nm, None)>>),
              StmtCompound(<<StmtVarDecl("Int", nm, None)>>)>>

(***************************************************************************)
(* C10.  The recognised characters: blank, tab and newline, the letters    *)
(* and digits, the underscore inside an identifier, and the nine           *)
(* punctuation characters.  A dot that follows the digits of a number is   *)
(* read as part of a real literal and is not counted as a stray character. *)
(***************************************************************************)
NinePunct == {"(", ")", "{", "}", ";", ",", "-", "+", "="}

PunctKind(c) ==
    CASE c = "(" -> "ParentOpen"
      [] c = ")" -> "ParentClose"
      [] c = "{" -> "BracketOpen"
      [] c = "}" -> "BracketClose"
      [] c = ";" -> "Semicolon"
      [] c = "," -> "Comma"
      [] c = "-" -> "Minus"
      [] c = "+" -> "Plus"
      [] c = "=" -> "Assign"

IdChars == AsciiAlphanumeric \cup {"_"}

\* the underscore at p continues an identifier: a letter comes before it
\* in its run of letters, digits and underscores
InIdentifier(text, p) ==
    \E q \in 1..(p - 1) :
       /\ text[q] \in AsciiAlphabetic
       /\ \A r \in q..(p - 1) : text[r] \in IdChars

\* the dot at p follows the digits of a number
LiteralDot(text, p) ==
    \E q \in 1..(p - 1) :
       /\ \A r \in q..(p - 1) : text[r] \in AsciiDigit
       /\ q = 1 \/ text[q - 1] \notin IdChars \cup {"."}

Stray(text, p) ==
    CASE text[p] \in {" ", "\t", "\n"} \cup AsciiAlphanumeric \cup NinePunct
           -> FALSE
      [] text[p] = "_" -> ~InIdentifier(text, p)
      [] text[p] = "." -> ~LiteralDot(text, p)
      [] OTHER -> TRUE

Strays(text) == {p \in 1..Len(text) : Stray(text, p)}
FirstStray(text) == CHOOSE p \in Strays(text) : \A q \in Strays(text) : p <= q

Occurrences(text, c) == Cardinality({p \in 1..Len(text) : text[p] = c})
TokensOfKind(ts, kind) == Cardinality({i \in 1..Len(ts) : ts[i].tok.k = kind})

\* C10: scan returns for every text made of recognised characters only,
\* with exactly one token of its kind for each of the nine punctuation
\* characters ( ) { } ; , - + =, and scan aborts, returning no token, at
\* the first character outside the recognised set and nowhere else.
C10_ScannerTotality ==
    /\ sc_pc = "returned" =>
         /\ Strays(source) = {}
         /\ \A c \in NinePunct :
               TokensOfKind(toks, PunctKind(c)) = Occurrences(source, c)
    /\ sc_pc = "panicked" =>
         /\ Strays(source) # {}
         /\ toks = <<>>
         /\ panic = "unexpected char: " \o source[FirstStray(source)]
         /\ lookahead = None
         /\ chars = SubSeq(source, FirstStray(source) + 1, Len(source))

(***************************************************************************)
(* C8.  The grammar of the parser as an LL(1) recogniser: a stack of       *)
(* grammar symbols, of which the top is matched against the next token     *)
(* (a terminal) or replaced by the right-hand side that the next token     *)
(* selects (a nonterminal).  It gives, for a token vector, the position of *)
(* the first token that does not fit and the symbol that was wanted there. *)
(*   Program   := (DataType ID AfterDecl)*                                 *)
(*   AfterDecl := ( Params ) Cmp  |  = Expr ;  |  ;                        *)
(*   Params    := (DataType ID ParamsRest)?   ParamsRest := (, DataType ID)* *)
(*   Cmp       := { Stmts }                                                *)
(*   Stmts     := (Expr ; | DataType ID Init ; | return RetExpr ; | Cmp)*  *)
(*   Init      := (= Expr)?          RetExpr := Expr?                      *)
(*   Expr      := NumInt | ID CallOpt                                      *)
(*   CallOpt   := (( Args ))?   Args := (Expr ArgsRest)?                   *)
(*   ArgsRest  := (, Expr)*                                                *)
(***************************************************************************)
Nonterminals ==
    {"Program", "AfterDecl", "Params", "ParamsRest", "Cmp", "Stmts", "Init",
     "RetExpr", "Expr", "CallOpt", "Args", "ArgsRest"}

KindAt(ts, i) == IF i <= Len(ts) THEN ts[i].tok.k ELSE "EOF"
IsTypeKind(kd) == kd \in {"KeywordInt", "KeywordVoid"}
IsExprKind(kd) == kd \in {"NumInt", "ID"}

\* the right-hand side chosen for a nonterminal, <<"Fail">> if there is none
Predict(sym, kd) ==
    CASE sym = "Program" ->
           IF IsTypeKind(kd) THEN <<"DataType", "ID", "AfterDecl", "Program">>
           ELSE IF kd = "EOF" THEN <<>> ELSE <<"Fail">>
      [] sym = "AfterDecl" ->
           IF kd = "ParentOpen"
           THEN <<"ParentOpen", "Params", "ParentClose", "Cmp">>
           ELSE IF kd = "Assign" THEN <<"Assign", "Expr", "Semicolon">>
           ELSE <<"Semicolon">>
      [] sym = "Params" ->
           IF IsTypeKind(kd) THEN <<"DataType", "ID", "ParamsRest">> ELSE <<>>
      [] sym = "ParamsRest" ->
           IF kd = "Comma" THEN <<"Comma", "DataType", "ID", "ParamsRest">>
           ELSE <<>>
      [] sym = "Cmp" -> <<"BracketOpen", "Stmts", "BracketClose">>
      [] sym = "Stmts" ->
           IF IsExprKind(kd) THEN <<"Expr", "Semicolon", "Stmts">>
           ELSE IF IsTypeKind(kd)
                THEN <<"DataType", "ID", "Init", "Semicolon", "Stmts">>
           ELSE IF kd = "KeywordReturn"
                THEN <<"KeywordReturn", "RetExpr", "Semicolon", "Stmts">>
           ELSE IF kd = "BracketOpen" THEN <<"Cmp", "Stmts">>
           ELSE IF kd = "BracketClose" THEN <<>>
           ELSE <<"Fail">>
      [] sym = "Init" -> IF kd = "Assign" THEN <<"Assign", "Expr">> ELSE <<>>
      [] sym = "RetExpr" -> IF IsExprKind(kd) THEN <<"Expr">> ELSE <<>>
      [] sym = "Expr" ->
           IF kd = "NumInt" THEN <<"NumInt">>
           ELSE IF kd = "ID" THEN <<"ID", "CallOpt">> ELSE <<"Fail">>
      [] sym = "CallOpt" ->
           IF kd = "ParentOpen" THEN <<"ParentOpen", "Args", "ParentClose">>
           ELSE <<>>
      [] sym = "Args" -> IF IsExprKind(kd) THEN <<"Expr", "ArgsRest">> ELSE <<>>
      [] sym = "ArgsRest" ->
           IF kd = "Comma" THEN <<"Comma", "Expr", "ArgsRest">> ELSE <<>>

Fits(sym, kd) == IF sym = "DataType" THEN IsTypeKind(kd) ELSE sym = kd

\* pos = 0: the vector is a program; otherwise the token at pos (the end of
\* the vector at Len + 1) does not fit, where `want` was wanted
RECURSIVE Recognise(_, _, _)
Recognise(stack, ts, i) ==
    IF stack = <<>> THEN [pos |-> 0, want |-> ""]
    ELSE LET top == Head(stack)
             kd == KindAt(ts, i)
         IN IF top \in Nonterminals
            THEN IF Predict(top, kd) = <<"Fail">> THEN [pos |-> i, want |-> top]
                 ELSE Recognise(Predict(top, kd) \o Tail(stack), ts, i)
            ELSE IF Fits(top, kd) THEN Recognise(Tail(stack), ts, i + 1)
            ELSE [pos |-> i, want |-> top]

FirstMisfit == Recognise(<<"Program">>, tokens, 1)

\* how a diagnostic shows the token it names
Shown(t) ==
    TokTypeDisplay(t.tok) \o " at " \o ToString(t.loc[1]) \o ":"
        \o ToString(t.loc[2])
ShownDebug(t) ==
    "Some(Token { tok: " \o TokTypeDebug(t.tok) \o ", loc: ("
        \o ToString(t.loc[1]) \o ", " \o ToString(t.loc[2]) \o ") })"

WantText(want) ==
    CASE want = "ParentOpen" -> "("
      [] want = "ParentClose" -> ")"
      [] want = "BracketOpen" -> "{"
      [] want = "BracketClose" -> "}"
      [] want = "Semicolon" -> ";"
      [] want = "Assign" -> "="
      [] want = "KeywordReturn" -> "return"

\* the symbols whose misfit is found by peeking, before the token is taken
Peeked == {"Program", "Stmts", "Expr"}

\* the diagnostic of a misfit at pos where `want` was wanted
Diagnostic(want, ts, pos) ==
    LET eof == pos > Len(ts)
    IN CASE want \in {"Program", "Stmts"} ->
              IF eof THEN "unexpected EOF" ELSE "unexpected " \o Shown(ts[pos])
         [] want = "Expr" ->
              "expected expression but "
                 \o (IF eof THEN "None" ELSE ShownDebug(ts[pos]))
         [] want = "DataType" ->
              IF eof THEN "unexpected EOF"
              ELSE "expected data type but " \o Shown(ts[pos])
         [] want = "ID" ->
              IF eof THEN "unexpected EOF"
              ELSE "exepcted ID but " \o Shown(ts[pos])
         [] OTHER ->
              "expected " \o WantText(want) \o " but "
                 \o (IF eof THEN "EOF" ELSE Shown(ts[pos]))

\* int main() { return 1 }
MissingSemicolon ==
    scan(<<"i", "n", "t", " ", "m", "a", "i", "n", "(", ")", " ", "{", " ",
           "r", "e", "t", "u", "r", "n", " ", "1", " ", "}">>).toks
\* int main
CutAfterName == scan(<<"i", "n", "t", " ", "m", "a", "i", "n">>).toks
\* int test() {
CutInBody ==
    scan(<<"i", "n", "t", " ", "t", "e", "s", "t", "(", ")", " ", "{">>).toks
\* main
NoType == scan(<<"m", "a", "i", "n">>).toks

\* C8: parse aborts exactly when some token, or the end of the tokens, does
\* not fit the grammar, and then at the first such position: it returns no
\* AST, its diagnostic names what was expected there (or only "unexpected")
\* and the token found with its line:column, or the end of input, and no
\* token after the misfit has been taken.  `int main() { return 1 }` aborts
\* with `expected ; but }` naming the `}`, `int main` with `expected ; but
\* EOF`, `int test() {` with `unexpected EOF`, and `main` with
\* `unexpected identifier 'main' at 1:1`.
C8_ParserFailFast ==
    /\ ps_pc = "iter" => FirstMisfit.pos = 0 \/ FirstMisfit.pos > index
    /\ ps_pc = "returned" =>
         /\ FirstMisfit.pos = 0
         /\ index = Len(tokens)
    /\ ps_pc = "panicked" =>
         /\ FirstMisfit.pos # 0
         /\ ext_decls = <<>>
         /\ panic = Diagnostic(FirstMisfit.want, tokens, FirstMisfit.pos)
         /\ index = IF FirstMisfit.want \in Peeked THEN FirstMisfit.pos - 1
                    ELSE FirstMisfit.pos
    /\ ps_pc \in {"returned", "panicked"} =>
         /\ tokens = MissingSemicolon => panic = "expected ; but } at 1:23"
         /\ tokens = CutAfterName => panic = "expected ; but EOF"
         /\ tokens = CutInBody => panic = "unexpected EOF"
         /\ tokens = NoType => panic = "unexpected identifier 'main' at 1:1"

\* `int main() { return 1 }` aborted at its `}`, the eighth token, which is
\* the last one taken
C8_Witness ==
    /\ ps_pc = "panicked"
    /\ tokens = MissingSemicolon
    /\ Len(tokens) = 8
    /\ FirstMisfit = [pos |-> 8, want |-> "Semicolon"]
    /\ index = 8
    /\ ext_decls = <<>>
    /\ panic = "expected ; but } at 1:23"

(***************************************************************************)
(* C11.  The words of a text: a word starts at a letter that does not      *)
(* continue an identifier, and runs over the letters, digits and           *)
(* underscores that follow.                                                *)
(***************************************************************************)
WordStarts(text) ==
    {p \in 1..Len(text) : text[p] \in AsciiAlphabetic /\ ~InIdentifier(text, p)}

WordEnd(text, p) ==
    CHOOSE j \in p..Len(text) :
       /\ \A r \in p..j : text[r] \in IdChars
       /\ j = Len(text) \/ text[j + 1] \notin IdChars

RECURSIVE Spelled(_, _, _)
Spelled(text, i, j) == IF i > j THEN "" ELSE text[i] \o Spelled(text, i + 1, j)

WordTok(run) ==
    IF run = "int" THEN KeywordInt
    ELSE IF run = "void" THEN KeywordVoid
    ELSE IF run = "return" THEN KeywordReturn
    ELSE ID(run)

\* the tokens of the words that start from position p on, in order
RECURSIVE WordToks(_, _)
WordToks(text, p) ==
    IF p > Len(text) THEN <<>>
    ELSE IF p \in WordStarts(text)
         THEN <<WordTok(Spelled(text, p, WordEnd(text, p)))>>
              \o WordToks(text, WordEnd(text, p) + 1)
    ELSE WordToks(text, p + 1)

IsWordTok(tok) == tok.k \in {"ID", "KeywordInt", "KeywordVoid", "KeywordReturn"}

RECURSIVE WordsOf(_)
WordsOf(ts) ==
    IF ts = <<>> THEN <<>>
    ELSE IF IsWordTok(Head(ts).tok) THEN <<Head(ts).tok>> \o WordsOf(Tail(ts))
    ELSE WordsOf(Tail(ts))

IsPrefix(s, t) == Len(s) <= Len(t) /\ s = SubSeq(t, 1, Len(s))

\* C11: starting at a letter the scanner takes the longest run of letters,
\* digits and underscores as one token, which is KeywordInt, KeywordVoid or
\* KeywordReturn exactly when the run is `int`, `void` or `return` and
\* ID(run) otherwise; the character that ends a run is not lost: it starts
\* the next token or is skipped as whitespace.
C11_MaximalMunch ==
    /\ sc_pc = "iter" => IsPrefix(WordsOf(toks), WordToks(source, 1))
    /\ sc_pc = "returned" =>
         /\ WordsOf(toks) = WordToks(source, 1)
         /\ \A c \in PunctChars :
               TokensOfKind(toks, PunctKind(c)) = Occurrences(source, c)

\* `int(void;return=a1_b-c2+x` is scanned: three keywords, four
\* identifiers, and the five characters that end the runs as tokens
C11_Witness ==
    /\ sc_pc = "returned"
    /\ Len(toks) = 11
    /\ WordsOf(toks) = <<KeywordInt, KeywordVoid, KeywordReturn, ID("a1_b"),
                         ID("c2"), ID("x")>>
    /\ toks[2].tok = ParentOpen /\ toks[4].tok = Semicolon

(***************************************************************************)
(* C12.  The positions of a text at which a token starts: a punctuation    *)
(* character, the first letter of a word, and the first digit of a number  *)
(* (a digit that continues neither an identifier nor a number).            *)
(***************************************************************************)
NumberStart(text, p) ==
    /\ text[p] \in AsciiDigit
    /\ ~InIdentifier(text, p)
    /\ p = 1 \/ text[p - 1] \notin AsciiDigit
    /\ p = 1 \/ ~(text[p - 1] = "." /\ LiteralDot(text, p - 1))

TokenStart(text, p) ==
    \/ text[p] \in NinePunct
    \/ p \in WordStarts(text)
    \/ NumberStart(text, p)

RECURSIVE TokenStarts(_, _)
TokenStarts(text, p) ==
    IF p > Len(text) THEN <<>>
    ELSE IF TokenStart(text, p) THEN <<p>> \o TokenStarts(text, p + 1)
    ELSE TokenStarts(text, p + 1)

\* the 1-based (line, column) of position p
LineOf(text, p) == 1 + Cardinality({q \in 1..(p - 1) : text[q] = "\n"})
ColumnOf(text, p) ==
    p - (IF \E q \in 1..(p - 1) : text[q] = "\n"
         THEN CHOOSE q \in 1..(p - 1) :
                 text[q] = "\n" /\ \A r \in (q + 1)..(p - 1) : text[r] # "\n"
         ELSE 0)

\* C12: every token carries the 1-based (line, column) of its first
\* character, the line being 1 plus the number of newlines before it and
\* the column restarting at 1 after each newline; also when an identifier,
\* keyword or number is directly followed by a newline, and on the lines
\* after it.
C12_TokenLocations ==
    sc_pc \in {"iter", "returned"} =>
       /\ Len(toks) <= Len(TokenStarts(source, 1))
       /\ \A i \in 1..Len(toks) :
             toks[i].loc = <<LineOf(source, TokenStarts(source, 1)[i]),
                             ColumnOf(source, TokenStarts(source, 1)[i])>>

(***************************************************************************)
(* C13: analyse aborts whenever two top-level declarations share a name    *)
(* (function and function, global and global, function and global in       *)
(* either order), and the diagnostic of every duplicate insertion names    *)
(* the new name and the role of the declaration that is already there,     *)
(* one of `global variable`, `local variable`, `function parameter`,       *)
(* `function`.                                                             *)
(***************************************************************************)
Roles == {"global variable", "local variable", "function parameter", "function"}

\* the role of a top-level declaration
RoleOf(decl) == IF decl.k = "Func" THEN "function" ELSE "global variable"

Names(nm, role) == nm \o " is already define as " \o role

\* the declaration before place i that has the name of the one at i
Earlier(decls, i) == {j \in 1..(i - 1) : decls[j].name = decls[i].name}

C13_TopLevelDuplicates ==
    /\ an_pc = "iter" => ~TopDup(ast, ai - 1)
    /\ an_pc = "returned" => ~TopDup(ast, Len(ast))
    /\ an_pc = "panicked" =>
         \E role \in Roles :
            IF Earlier(ast, ai) # {}
            THEN \E j \in Earlier(ast, ai) :
                    role = RoleOf(ast[j]) /\ panic = Names(ast[ai].name, role)
            ELSE /\ ast[ai].k = "Func"
                 /\ role = "local variable"
                 /\ \E nm \in DeclaredIn(ast[ai].cmp_stmt.stmts) :
                       panic = Names(nm, role)

(***************************************************************************)
(* C14: the text gen_asm returns begins with the `.text` directive, which  *)
(* it holds once; then come the blocks of the program's functions in       *)
(* source order, one block per FuncDecl; a global variable declaration,    *)
(* with or without initializer, contributes no text, and there is no       *)
(* other section or directive.                                             *)
(***************************************************************************)
\* the name as the target's assembler wants it
Symbol(name) == IF target = "MacOs" THEN "_" \o name ELSE name

\* the functions of the program, in source order
FuncsOf(decls) == SelectSeq(decls, LAMBDA d : d.k = "Func")

Symbols == FuncNames \cup {"_" \o nm : nm \in FuncNames}
ArgRegNames == {"x0", "x1", "x2", "x3", "x4", "x5", "x6", "x7"}

GlobalLines == {"\t.global " \o sy : sy \in Symbols}
LabelLines == {sy \o ":" : sy \in Symbols}

\* the lines that are instructions: neither directive, label nor blank
InstructionLines ==
    {"\tmov " \o r \o ", #" \o ToString(v) : r \in ArgRegNames, v \in -1..101}
    \cup {"\tmov " \o r \o ", x0" : r \in ArgRegNames}
    \cup {"\tstr " \o r \o ", [sp, #" \o ToString(n) \o "]" :
            r \in ArgRegNames, n \in 0..MaxFrame}
    \cup {"\tsub sp, sp, #" \o ToString(n) : n \in 1..MaxFrame}
    \cup {"\tadd sp, sp, #" \o ToString(n) : n \in 1..MaxFrame}
    \cup {"\tbl " \o sy : sy \in Symbols}
    \cup {"\tstp x29, x30, [sp, #-16]!", "\tmov x29, sp",
          "\tldp x29, x30, [sp], #16", "\tret"}

\* the places of the text where a block starts
Heads(lines) == {p \in 1..Len(lines) : lines[p] \in GlobalLines}

\* the i-th smallest place of a set of places
Nth(S, i) == CHOOSE p \in S : Cardinality({q \in S : q <= p}) = i

\* the last line of the i-th block
BlockEnd(lines, i) ==
    IF i = Cardinality(Heads(lines)) THEN Len(lines)
    ELSE Nth(Heads(lines), i + 1) - 1

\* the lines from h to e are the block of func
IsBlockOf(lines, h, e, func) ==
    /\ e >= h + 4
    /\ lines[h] = "\t.global " \o Symbol(func.name)
    /\ lines[h + 1] = "\t.p2align 2"
    /\ lines[h + 2] = Symbol(func.name) \o ":"
    /\ \A p \in (h + 3)..(e - 2) : lines[p] \in InstructionLines
    /\ lines[e - 1] = "\tret"
    /\ lines[e] = ""

C14_OutputStructure ==
    gen_pc = "returned" =>
       /\ IsSome(asm)
       /\ Len(Unwrap(asm)) >= 1
       /\ Unwrap(asm)[1] = "\t.text"
       /\ {p \in 1..Len(Unwrap(asm)) : Unwrap(asm)[p] = "\t.text"} = {1}
       /\ Cardinality(Heads(Unwrap(asm))) = Len(FuncsOf(ast))
       /\ FuncsOf(ast) = <<>> => Len(Unwrap(asm)) = 1
       /\ FuncsOf(ast) # <<>> => Nth(Heads(Unwrap(asm)), 1) = 2
       /\ \A i \in 1..Len(FuncsOf(ast)) :
             IsBlockOf(Unwrap(asm), Nth(Heads(Unwrap(asm)), i),
                       BlockEnd(Unwrap(asm), i), FuncsOf(ast)[i])

\* main, a global with an initializer, foo calling main, and a last global:
\* two blocks and nothing else
C14_Witness ==
    /\ gen_pc = "returned"
    /\ Len(ast) = 4
    /\ ast[1] = MainOne
    /\ ast[2] = GlobalVarDecl("Int", "g", Some(IntConst(101)))
    /\ ast[3].k = "Func" /\ ast[3].name = "foo"
    /\ ast[3].cmp_stmt.stmts = <<StmtExpr(FunctionCall("main", <<>>))>>
    /\ ast[4].k = "Global"
    /\ target = "MacOs"
    /\ asm = Some(<<"\t.text",
                    "\t.global _main", "\t.p2align 2", "_main:",
                    "\tmov x0, #1", "\tret", "",
                    "\t.global _foo", "\t.p2align 2", "_foo:",
                    "\tstp x29, x30, [sp, #-16]!", "\tmov x29, sp",
                    "\tbl _main", "\tldp x29, x30, [sp], #16",
                    "\tret", "">>)

(***************************************************************************)
(* C15: in the driver the stages of one unit run strictly in the order     *)
(* scan, parse, analyse, gen_asm, write of the assembly file; the file of  *)
(* a unit is written only after the four stages completed without error    *)
(* for that unit; if a stage aborts, no assembly file is written for that  *)
(* unit nor for a later one, and neither the assembler nor the linker is   *)
(* invoked.                                                                *)
(***************************************************************************)
FrontEnd == <<"scan", "parse", "analyse", "gen_asm">>

\* the places of events where op was done
Places(op) == {p \in 1..Len(events) : events[p].op = op}

\* the four stages of unit i come right before place p, in their order
FourBefore(p, i) ==
    /\ p > Len(FrontEnd)
    /\ \A k \in 1..Len(FrontEnd) :
          events[p - Len(FrontEnd) - 1 + k] = Event(FrontEnd[k], i)

\* the stage at place p is one the unit's contents make abort
AbortsAt(p) ==
    /\ events[p].op \in {FrontEnd[k] : k \in 1..Len(FrontEnd)}
    /\ opts.files[events[p].unit].aborts = events[p].op

C15_NoPartialOutput ==
    main_pc # "idle" =>
       /\ \A p \in 1..Len(events) :
             /\ \A k \in 2..Len(FrontEnd) :
                   events[p].op = FrontEnd[k] =>
                      p > 1 /\ events[p - 1] = Event(FrontEnd[k - 1], events[p].unit)
             /\ events[p].op = "write" =>
                   /\ FourBefore(p, events[p].unit)
                   /\ \A q \in (p - Len(FrontEnd))..(p - 1) : ~AbortsAt(q)
             /\ events[p].op = "scan" =>
                   \A q \in 1..(p - 1) :
                      events[q].op \in {"scan", "parse", "analyse", "gen_asm", "write"}
                         => events[q].unit < events[p].unit
             /\ AbortsAt(p) =>
                   /\ p = Len(events)
                   /\ main_pc = "panicked"
                   /\ \A q \in Places("write") : events[q].unit < events[p].unit
                   /\ Places("as") = {} /\ Places("ld") = {}
       /\ \A p, q \in Places("write") : p < q => events[p].unit < events[q].unit

\* the first unit is written, the second aborts in analyse: main panics
\* with one file written and no command run
C15_Witness ==
    /\ main_pc = "panicked"
    /\ Len(opts.files) = 2
    /\ opts.files[1].aborts = "" /\ opts.files[2].aborts = "analyse"
    /\ ~opts.compile_only /\ ~opts.complie_as_only
    /\ Len(events) = 10
    /\ events[6] = Event("write", 1)
    /\ events[10] = Event("analyse", 2)
    /\ asm_paths = <<new_output(1, "s", TRUE)>>

(***************************************************************************)
(* C16: the front-end runs for every input file whatever the flags; with   *)
(* -S neither the assembler nor the linker is invoked; with -c and no -S   *)
(* the assembler is invoked once per assembly file and the linker never;   *)
(* with neither flag the linker is invoked exactly once, after every       *)
(* assembler invocation has succeeded.  The target check runs before the   *)
(* first assembler invocation and is skipped under -S, and an exit status  *)
(* of the assembler or linker that is not success aborts before any later  *)
(* stage runs.                                                             *)
(***************************************************************************)
\* the units whose event op is in events, in the order of the events
RECURSIVE UnitsOf(_, _)
UnitsOf(op, p) ==
    IF p > Len(events) THEN <<>>
    ELSE IF events[p].op = op THEN <<events[p].unit>> \o UnitsOf(op, p + 1)
    ELSE UnitsOf(op, p + 1)

AllUnits == [i \in 1..Len(opts.files) |-> i]

Commands == Places("as") \cup Places("ld")

C16_StageGating ==
    main_pc # "idle" =>
       /\ main_pc \in {"check_target", "run_assembler", "run_linker", "returned"}
             => UnitsOf("write", 1) = AllUnits
       /\ opts.compile_only =>
             Commands = {} /\ Places("check_target") = {}
       /\ opts.complie_as_only => Places("ld") = {}
       /\ (main_pc = "returned" /\ ~opts.compile_only) =>
             /\ UnitsOf("as", 1) = AllUnits
             /\ Cardinality(Places("ld")) = IF opts.complie_as_only THEN 0 ELSE 1
       /\ Cardinality(Places("ld")) <= 1
       /\ \A p \in Places("ld") :
             /\ UnitsOf("as", 1) = AllUnits
             /\ \A q \in Places("as") : q < p /\ events[q].status = "success"
       /\ Cardinality(Places("check_target")) <= 1
       /\ \A p \in Commands :
             /\ UnitsOf("write", 1) = AllUnits
             /\ \A q \in Places("write") : q < p
             /\ \E q \in Places("check_target") : q < p
             /\ events[p].status # "success" =>
                   p = Len(events) /\ main_pc = "panicked"

\* two files, no flag: two assembler runs, then the linker, and main returns
C16_Witness ==
    /\ main_pc = "returned"
    /\ Len(opts.files) = 2
    /\ ~opts.compile_only /\ ~opts.complie_as_only
    /\ Len(events) = 16
    /\ events[13] = Event("check_target", 0)
    /\ events[14] = [op |-> "as", unit |-> 1, status |-> "success"]
    /\ events[15] = [op |-> "as", unit |-> 2, status |-> "success"]
    /\ events[16] = [op |-> "ld", unit |-> 0, status |-> "success"]
    /\ obj_paths = <<new_output(1, "o", TRUE), new_output(2, "o", TRUE)>>

(***************************************************************************)
(* C17: for a call f(e0, ..., ek) with k < 8 whose arguments are integer   *)
(* constants or calls, nested to any depth, executing the emitted          *)
(* instructions under the calling convention (a callee returns its result  *)
(* in x0 and may overwrite x0..x7) leaves, when `bl f` executes, every     *)
(* argument register xi holding the value of ei.                           *)
(***************************************************************************)
\* what a register holds
Const(v) == [k |-> "const", v |-> v]
Ret(name, args) == [k |-> "ret", name |-> name, args |-> args]
Undefined == [k |-> "undefined"]
Clobbered == [k |-> "clobbered"]

RegNums == 0..7

\* the value of an argument expression
RECURSIVE Val(_)
Val(e) ==
    IF e.k = "IntConst" THEN Const(e.v)
    ELSE Ret(e.name, [i \in 1..Len(e.args) |-> Val(e.args[i])])

\* a call whose arguments are constants or such calls, at most eight each
RECURSIVE PlainCall(_)
PlainCall(e) ==
    /\ e.k = "FunctionCall"
    /\ Len(e.args) <= 8
    /\ \A i \in 1..Len(e.args) :
          e.args[i].k = "IntConst" \/ PlainCall(e.args[i])

\* the calls of an expression in the order their `bl` is reached
RECURSIVE CallsOf(_), CallsOfArgs(_, _)
CallsOf(e) ==
    IF e.k = "IntConst" THEN <<>>
    ELSE CallsOfArgs(e.args, 1) \o <<[name |-> e.name, arity |-> Len(e.args)]>>
CallsOfArgs(args, i) ==
    IF i > Len(args) THEN <<>>
    ELSE CallsOf(args[i]) \o CallsOfArgs(args, i + 1)

\* the instructions that write an argument register
MovImms ==
    {[text |-> "\tmov x" \o ToString(r) \o ", #" \o ToString(v),
      r |-> r, v |-> v] : r \in RegNums, v \in -1..(MaxArgs + 1)}
MovRegs ==
    {[text |-> "\tmov x" \o ToString(r) \o ", x0", r |-> r] : r \in RegNums}

\* the registers after the callee c returned
AfterCall(regs, c) ==
    [r \in RegNums |->
       IF r = 0 THEN Ret(c.name, [i \in 1..c.arity |-> regs[i - 1]])
       ELSE Clobbered]

\* the registers and the number of calls made, after the instruction
Step(text, regs, made, calls) ==
    IF text \in BlLines
    THEN <<AfterCall(regs, calls[made + 1]), made + 1>>
    ELSE IF \E m \in MovImms : m.text = text
    THEN Only({<<[regs EXCEPT ![m.r] = Const(m.v)], made>> :
                 m \in {n \in MovImms : n.text = text}})
    ELSE IF \E m \in MovRegs : m.text = text
    THEN Only({<<[regs EXCEPT ![m.r] = regs[0]], made>> :
                 m \in {n \in MovRegs : n.text = text}})
    ELSE <<regs, made>>

\* the registers when the last `bl` of calls is about to execute
RECURSIVE AtLastCall(_, _, _, _, _)
AtLastCall(lines, p, regs, made, calls) ==
    IF lines[p] \in BlLines /\ made + 1 = Len(calls) THEN regs
    ELSE Only({AtLastCall(lines, p + 1, st[1], st[2], calls) :
                 st \in {Step(lines[p], regs, made, calls)}})

\* the body is one statement `return e;` or `e;`, e a call of the claim
OneCall == SingleCall /\ PlainCall(TheCall)

C17_NestedCallArguments ==
    OneCall =>
       \E regs \in {AtLastCall(BodyCode, 1, [r \in RegNums |-> Undefined], 0,
                               CallsOf(TheCall))} :
          \A i \in 1..Len(TheCall.args) : regs[i - 1] = Val(TheCall.args[i])

(***************************************************************************)
(* C18: whenever gen_asm emits the code of a function, every declared      *)
(* parameter has a store and every argument of every call is placed for    *)
(* the callee; a function of more than 8 parameters or a call of more      *)
(* than 8 arguments makes gen_asm abort, its 9th and later parameters or   *)
(* arguments are never dropped.                                            *)
(***************************************************************************)
\* the numbers of arguments of the calls of an expression, at any depth
RECURSIVE ArgCountsOf(_)
ArgCountsOf(e) ==
    IF e.k # "FunctionCall" THEN {}
    ELSE {Len(e.args)} \cup UNION {ArgCountsOf(e.args[i]) : i \in 1..Len(e.args)}

\* the same of a statement that gen_func lowers
StmtArgCounts(st) ==
    IF st.k = "Expr" THEN ArgCountsOf(st.expr)
    ELSE IF st.k = "Return" /\ IsSome(st.expr) THEN ArgCountsOf(Unwrap(st.expr))
    ELSE {}

\* the lines that write register r
WritesOf(r) ==
    {m.text : m \in {n \in MovImms : n.r = r}}
    \cup {m.text : m \in {n \in MovRegs : n.r = r}}

C18_NoSilentTruncation ==
    HasBlock =>
       /\ Len(LastFunc.params) <= 8
       /\ Count(Block, StrLines) = Len(LastFunc.params)
       /\ \A i \in 1..Len(LastFunc.cmp_stmt.stmts) :
             \A n \in StmtArgCounts(LastFunc.cmp_stmt.stmts[i]) : n <= 8
       /\ SingleCall =>
             \A i \in 2..Len(TheCall.args) :
                \E p \in 1..Len(BodyCode) : BodyCode[p] \in WritesOf(i - 1)

(***************************************************************************)
(* C20: in analyse the scopes are pushed and popped strictly LIFO; while   *)
(* the statements of a block at nesting depth d are processed (a function  *)
(* body has depth 1) the stack holds d + 1 scopes and insertions go into   *)
(* the innermost one; after a function body only the root scope is left;   *)
(* cur_scope is never called on an empty stack; and when analyse returns   *)
(* the stack is empty, so a second analyse of the program starts from an   *)
(* empty table and gives the same outcome.                                 *)
(***************************************************************************)
\* what is seen of a printed table: how many scopes it holds and, when a
\* scope is popped, the names that were inserted into it
Seen(ev) ==
    [op |-> ev.op, scopes |-> Len(ev.table),
     names |-> IF ev.op = "pop" /\ ev.table # <<>>
               THEN DOMAIN ev.table[Len(ev.table)] ELSE {}]

\* the names the statements of a block declare directly
DirectNames(stmts) ==
    {stmts[i].name : i \in {j \in 1..Len(stmts) : stmts[j].k = "VarDecl"}}

\* entering and leaving the block of statements stmts at depth d
RECURSIVE BlockTrace(_, _), StmtsTrace(_, _, _)
BlockTrace(stmts, d) ==
    <<[op |-> "push", scopes |-> d, names |-> {}]>>
    \o StmtsTrace(stmts, 1, d)
    \o <<[op |-> "pop", scopes |-> d + 1, names |-> DirectNames(stmts)]>>
StmtsTrace(stmts, i, d) ==
    IF i > Len(stmts) THEN <<>>
    ELSE (IF stmts[i].k = "Compound" THEN BlockTrace(stmts[i].stmts, d + 1)
          ELSE <<>>) \o StmtsTrace(stmts, i + 1, d)

\* the same for the declarations of a program up to place n
RECURSIVE DeclsTrace(_, _)
DeclsTrace(decls, n) ==
    IF n = 0 THEN <<>>
    ELSE DeclsTrace(decls, n - 1)
         \o (IF decls[n].k = "Func" THEN BlockTrace(decls[n].cmp_stmt.stmts, 1)
             ELSE <<>>)

\* one whole run of analyse
RunTrace(decls) ==
    <<[op |-> "push", scopes |-> 0, names |-> {}]>>
    \o DeclsTrace(decls, Len(decls))
    \o <<[op |-> "pop", scopes |-> 1,
          names |-> {decls[i].name : i \in 1..Len(decls)}]>>

RECURSIVE Repeated(_, _)
Repeated(t, n) == IF n = 0 THEN <<>> ELSE t \o Repeated(t, n - 1)

SeenLog == [i \in 1..Len(an_log) |-> Seen(an_log[i])]

\* the scopes open after the events of the log: pushes less pops
Open == Cardinality({i \in 1..Len(an_log) : an_log[i].op = "push"})
        - Cardinality({i \in 1..Len(an_log) : an_log[i].op = "pop"})

\* the push that the pop at place j of the log closes
PushOf(j) ==
    CHOOSE i \in 1..(j - 1) :
       /\ an_log[i].op = "push"
       /\ Len(an_log[i].table) + 1 = Len(an_log[j].table)
       /\ \A m \in (i + 1)..(j - 1) : Len(an_log[m].table) > Len(an_log[i].table)

C20_ScopeStackDiscipline ==
    an_pc # "idle" =>
       /\ panic # EmptyStackPanic
       /\ Len(table) = Open
       /\ an_pc = "iter" =>
             /\ Len(table) = 1
             /\ SeenLog = Repeated(RunTrace(ast), an_runs - 1)
                          \o <<[op |-> "push", scopes |-> 0, names |-> {}]>>
                          \o DeclsTrace(ast, ai - 1)
       /\ an_pc = "returned" =>
             /\ table = <<>>
             /\ SeenLog = Repeated(RunTrace(ast), an_runs)
       /\ an_pc = "panicked" =>
             /\ an_runs = 1
             /\ Len(table) >= 1
             /\ IsPrefix(SeenLog, RunTrace(ast))
       /\ \A j \in 1..Len(an_log) :
             an_log[j].op = "pop" =>
                /\ \E i \in 1..(j - 1) :
                      /\ an_log[i].op = "push"
                      /\ Len(an_log[i].table) + 1 = Len(an_log[j].table)
                /\ SubSeq(an_log[j].table, 1, Len(an_log[j].table) - 1)
                      = an_log[PushOf(j)].table

\* f holds a block in a block, each declaring g: analyse has returned twice,
\* and the innermost pop printed four scopes
C20_Witness ==
    /\ an_pc = "returned" /\ an_runs = 2
    /\ ast[2].k = "Func"
    /\ ast[2].cmp_stmt.stmts =
          <<StmtVarDecl("Int", "g", None),
            StmtCompound(<<StmtVarDecl("Int", "g", None),
                           StmtCompound(<<StmtVarDecl("Int", "g", None)>>)>>)>>
    /\ Len(an_log) = 16
    /\ Seen(an_log[5]) = [op |-> "pop", scopes |-> 4, names |-> {"g"}]
    /\ an_log[5].table[1] = ("g" :> "GlobalVar") @@ ("f" :> "Func")

(***************************************************************************)
(* C19: for every run of decimal digits whose value n is below 2^64, scan  *)
(* produces NumInt(n), accumulating num * 10 + digit from left to right,   *)
(* leading zeros allowed; parse turns it into IntConst(n) when n < 2^63    *)
(* and into IntConst(n - 2^64) otherwise, and that signed value is what    *)
(* `mov <dst>, #v` prints.  Numbers are written here as the sequences of   *)
(* their decimal digits, without leading zeros.                            *)
(***************************************************************************)
D63 == <<9, 2, 2, 3, 3, 7, 2, 0, 3, 6, 8, 5, 4, 7, 7, 5, 8, 0, 8>>
D64 == <<1, 8, 4, 4, 6, 7, 4, 4, 0, 7, 3, 7, 0, 9, 5, 5, 1, 6, 1, 6>>

\* the digits of a text
DigitsIn(text) == [i \in 1..Len(text) |-> char_to_u64(text[i])]

\* without the leading zeros, one digit at least
RECURSIVE Strip(_)
Strip(ds) == IF Len(ds) > 1 /\ ds[1] = 0 THEN Strip(Tail(ds)) ELSE ds

\* a < b, of stripped digit sequences
Below(a, b) ==
    \/ Len(a) < Len(b)
    \/ /\ Len(a) = Len(b)
       /\ \E i \in 1..Len(a) :
             a[i] < b[i] /\ \A j \in 1..(i - 1) : a[j] = b[j]

\* the digit of a at k places from the right (0 the last), 0 beyond it
Place(a, k) == IF k < Len(a) THEN a[Len(a) - k] ELSE 0

\* subtraction at place k borrows from the next place
RECURSIVE Borrows(_, _, _)
Borrows(a, b, k) ==
    IF k < 0 THEN FALSE
    ELSE Place(a, k) - Place(b, k) - (IF Borrows(a, b, k - 1) THEN 1 ELSE 0) < 0

\* a - b by the school method, for a >= b
Minus10(a, b) ==
    Strip([i \in 1..Len(a) |->
             (Place(a, Len(a) - i) - Place(b, Len(a) - i)
              - (IF Borrows(a, b, Len(a) - i - 1) THEN 1 ELSE 0) + 10) % 10])

\* the digits written out
RECURSIVE Written(_)
Written(ds) == IF ds = <<>> THEN "" ELSE ToString(ds[1]) \o Written(Tail(ds))

\* the digits of what three limbs are worth
DigitsOfLimbs(a) ==
    Strip([i \in 1..24 |->
             (a[1 + (i - 1) \div 8] \div 10 ^ (7 - ((i - 1) % 8))) % 10])

\* the value of the literal, and of the digits read so far
LitValue == Strip(DigitsIn(lit_src))
ReadSoFar ==
    Strip(DigitsIn(SubSeq(lit_src, 1, Len(lit_src) - Len(lit_chars))))

C19_IntegerLiterals ==
    (lit_pc # "idle" /\ Below(LitValue, D64)) =>
       /\ lit_pc # "panicked"
       /\ lit_pc = "scan_pos_num" => DigitsOfLimbs(lit_num) = ReadSoFar
       /\ lit_tok # None =>
             /\ Unwrap(lit_tok).k = "NumInt"
             /\ DigitsOfLimbs(Unwrap(lit_tok).v) = LitValue
       /\ lit_expr # None =>
             /\ Unwrap(lit_expr).k = "IntConst"
             /\ Unwrap(lit_expr).v.neg = ~Below(LitValue, D63)
             /\ DigitsOfLimbs(Unwrap(lit_expr).v.mag) =
                   IF Below(LitValue, D63) THEN LitValue
                   ELSE Minus10(D64, LitValue)
       /\ lit_pc = "emitted" =>
             lit_asm = <<"\tmov x0, #"
                         \o (IF Below(LitValue, D63) THEN Written(LitValue)
                             ELSE "-" \o Written(Minus10(D64, LitValue)))>>

\* 0018446744073709551615 is NumInt(2^64 - 1), IntConst(-1), `mov x0, #-1`,
\* whether or not the build checks overflow
C19_Witness ==
    /\ lit_pc = "emitted"
    /\ Len(lit_src) = 22 /\ lit_src[1] = "0" /\ lit_src[3] = "1"
    /\ overflow_checks
    /\ lit_tok = Some(NumInt(Limbs(1844, 67440737, 9551615)))
    /\ lit_expr = Some(IntConst(I64(TRUE, Limbs(0, 0, 1))))
    /\ lit_asm = <<"\tmov x0, #-1">>

(***************************************************************************)
(* C21.  What the tokens taken so far say, read without the parser: a      *)
(* data type outside every parenthesis and brace starts an external        *)
(* declaration, and an identifier that does not follow a data type is a    *)
(* reference.  The other way round, the tokens that an AST is written      *)
(* with.                                                                   *)
(***************************************************************************)
Taken == [i \in 1..Min(index, Len(tokens)) |-> tokens[i].tok]

Nesting(ts, i) ==
    Cardinality({j \in 1..(i - 1) : ts[j].k \in {"ParentOpen", "BracketOpen"}})
    - Cardinality({j \in 1..(i - 1) :
                      ts[j].k \in {"ParentClose", "BracketClose"}})
DeclStarts(ts) ==
    {i \in 1..Len(ts) : IsTypeKind(ts[i].k) /\ Nesting(ts, i) = 0}
RefPlaces(ts) ==
    {i \in 1..Len(ts) : ts[i].k = "ID" /\ (i = 1 \/ ~IsTypeKind(ts[i - 1].k))}
Followed(ts, i, kd) == i < Len(ts) /\ ts[i + 1].k = kd
TypeOf(t) == IF t.k = "KeywordInt" THEN "Int" ELSE "Void"

\* the parameters written from the `(` at o up to the first `)`
CloseOf(ts, o) == Nth({c \in (o + 1)..Len(ts) : ts[c].k = "ParentClose"}, 1)
ParamPlaces(ts, o) ==
    {p \in (o + 1)..(CloseOf(ts, o) - 1) : IsTypeKind(ts[p].k)}
ParamsAt(ts, o) ==
    [n \in 1..Cardinality(ParamPlaces(ts, o)) |->
        ParamDecl(TypeOf(ts[Nth(ParamPlaces(ts, o), n)]),
                  ts[Nth(ParamPlaces(ts, o), n) + 1].s)]

\* the references of the tokens, in the order of the text
RefToks(ts) ==
    [n \in 1..Cardinality(RefPlaces(ts)) |->
        [name |-> ts[Nth(RefPlaces(ts), n)].s,
         call |-> Followed(ts, Nth(RefPlaces(ts), n), "ParentOpen")]]

\* the references of an AST, a node before its arguments
RECURSIVE RefsOfExpr(_), RefsOfArgs(_), RefsOfStmts(_), RefsOfDecls(_)
RefsOfExpr(e) ==
    CASE e.k = "VarRef" -> <<[name |-> e.name, call |-> FALSE]>>
      [] e.k = "FunctionCall" ->
           <<[name |-> e.name, call |-> TRUE]>> \o RefsOfArgs(e.args)
      [] OTHER -> <<>>
RefsOfArgs(args) ==
    IF args = <<>> THEN <<>>
    ELSE RefsOfExpr(Head(args)) \o RefsOfArgs(Tail(args))
RefsOfOpt(opt) == IF IsSome(opt) THEN RefsOfExpr(Unwrap(opt)) ELSE <<>>
RefsOfStmts(stmts) ==
    IF stmts = <<>> THEN <<>>
    ELSE (CASE Head(stmts).k = "Compound" -> RefsOfStmts(Head(stmts).stmts)
            [] Head(stmts).k = "Expr" -> RefsOfExpr(Head(stmts).expr)
            [] OTHER -> RefsOfOpt(Head(stmts).expr))
         \o RefsOfStmts(Tail(stmts))
RefsOfDecls(decls) ==
    IF decls = <<>> THEN <<>>
    ELSE (IF Head(decls).k = "Func"
          THEN RefsOfStmts(Head(decls).cmp_stmt.stmts)
          ELSE RefsOfOpt(Head(decls).expr))
         \o RefsOfDecls(Tail(decls))

\* the tokens an AST is written with
TypeTok(dt) == IF dt = "Int" THEN KeywordInt ELSE KeywordVoid
RECURSIVE ExprToks(_), ArgsToks(_), StmtsToks(_), ParamsToks(_), DeclsToks(_)
ExprToks(e) ==
    CASE e.k = "IntConst" -> <<NumInt(e.v)>>
      [] e.k = "VarRef" -> <<ID(e.name)>>
      [] e.k = "FunctionCall" ->
           <<ID(e.name), ParentOpen>> \o ArgsToks(e.args) \o <<ParentClose>>
ArgsToks(args) ==
    IF args = <<>> THEN <<>>
    ELSE IF Len(args) = 1 THEN ExprToks(args[1])
    ELSE ExprToks(Head(args)) \o <<Comma>> \o ArgsToks(Tail(args))
OptToks(lead, opt) ==
    IF IsSome(opt) THEN lead \o ExprToks(Unwrap(opt)) ELSE <<>>
StmtsToks(stmts) ==
    IF stmts = <<>> THEN <<>>
    ELSE (CASE Head(stmts).k = "VarDecl" ->
                 <<TypeTok(Head(stmts).data_type), ID(Head(stmts).name)>>
                    \o OptToks(<<Assign>>, Head(stmts).expr) \o <<Semicolon>>
            [] Head(stmts).k = "Return" ->
                 <<KeywordReturn>> \o OptToks(<<>>, Head(stmts).expr)
                    \o <<Semicolon>>
            [] Head(stmts).k = "Expr" ->
                 ExprToks(Head(stmts).expr) \o <<Semicolon>>
            [] Head(stmts).k = "Compound" ->
                 <<BracketOpen>> \o StmtsToks(Head(stmts).stmts)
                    \o <<BracketClose>>)
         \o StmtsToks(Tail(stmts))
ParamsToks(params) ==
    IF params = <<>> THEN <<>>
    ELSE <<TypeTok(Head(params).data_type), ID(Head(params).name)>>
         \o (IF Len(params) = 1 THEN <<>>
             ELSE <<Comma>> \o ParamsToks(Tail(params)))
DeclsToks(decls) ==
    IF decls = <<>> THEN <<>>
    ELSE (IF Head(decls).k = "Func"
          THEN <<TypeTok(Head(decls).return_type), ID(Head(decls).name),
                 ParentOpen>>
               \o ParamsToks(Head(decls).params)
               \o <<ParentClose, BracketOpen>>
               \o StmtsToks(Head(decls).cmp_stmt.stmts) \o <<BracketClose>>
          ELSE <<TypeTok(Head(decls).data_type), ID(Head(decls).name)>>
               \o OptToks(<<Assign>>, Head(decls).expr) \o <<Semicolon>>)
         \o DeclsToks(Tail(decls))

\* int g ; int h = f ( 1 ) ; int f ( int x , int y )
\* { return f ( y , h ( ) ) ; }
Ambiguous ==
    <<KeywordInt, ID("g"), Semicolon,
      KeywordInt, ID("h"), Assign, ID("f"), ParentOpen, NumInt(1),
      ParentClose, Semicolon,
      KeywordInt, ID("f"), ParentOpen, KeywordInt, ID("x"), Comma,
      KeywordInt, ID("y"), ParentClose, BracketOpen, KeywordReturn, ID("f"),
      ParentOpen, ID("y"), Comma, ID("h"), ParentOpen, ParentClose,
      ParentClose, Semicolon, BracketClose>>

\* C21: while parse has not aborted, the external declarations parsed so
\* far are those of the tokens taken, one for each declarator at top level
\* and in the order of the text: a FunctionDecl exactly when `(` follows
\* the declarator, otherwise a GlobalVarDecl whose initializer is present
\* exactly when `=` follows it; the references of the AST are the
\* identifiers of the text that are no declarator, in the order of the
\* text, each a FunctionCall exactly when `(` follows it and a VarRef
\* otherwise; the parameters are those written between the parentheses, in
\* their order, and written back with its parameters and arguments in the
\* order it holds them, the AST gives the tokens taken.
C21_ParserDisambiguation ==
    ps_pc \in {"iter", "returned"} =>
        /\ Len(ext_decls) = Cardinality(DeclStarts(Taken))
        /\ \A j \in 1..Len(ext_decls) :
              /\ ext_decls[j].name = Taken[Nth(DeclStarts(Taken), j) + 1].s
              /\ ext_decls[j].k = "Func"
                   <=> Followed(Taken, Nth(DeclStarts(Taken), j) + 1,
                                "ParentOpen")
              /\ ext_decls[j].k = "Func" =>
                   /\ ext_decls[j].return_type
                        = TypeOf(Taken[Nth(DeclStarts(Taken), j)])
                   /\ ext_decls[j].params
                        = ParamsAt(Taken, Nth(DeclStarts(Taken), j) + 2)
              /\ ext_decls[j].k # "Func" =>
                   /\ ext_decls[j].k = "Global"
                   /\ ext_decls[j].data_type
                        = TypeOf(Taken[Nth(DeclStarts(Taken), j)])
                   /\ IsSome(ext_decls[j].expr)
                        <=> Followed(Taken, Nth(DeclStarts(Taken), j) + 1,
                                     "Assign")
        /\ RefsOfDecls(ext_decls) = RefToks(Taken)
        /\ DeclsToks(ext_decls) = Taken

\* `int g; int h = f(1); int f(int x, int y) { return f(y, h()); }` was
\* parsed to its end: a global without an initializer, a global whose
\* initializer is a call, and a function of two parameters whose return
\* takes a variable and a call as the arguments of a call
C21_Witness ==
    /\ ps_pc = "returned"
    /\ Taken = Ambiguous
    /\ ext_decls =
         <<GlobalVarDecl("Int", "g", None),
           GlobalVarDecl("Int", "h",
                         Some(FunctionCall("f", <<IntConst(1)>>))),
           FuncDecl("Int", "f",
                    <<ParamDecl("Int", "x"), ParamDecl("Int", "y")>>,
                    CmpStmt(<<StmtReturn(Some(
                        FunctionCall("f",
                            <<VarRef("y"),
                              FunctionCall("h", <<>>)>>)))>>))>>

(***************************************************************************)
(* C22.  The stack pointer while the lines of a block execute, counted     *)
(* from its value at the entry of the function: `sub sp` and the           *)
(* pre-indexed `stp` lower it, `add sp` and the post-indexed `ldp` raise   *)
(* it, and no other line of a block writes it.                             *)
(***************************************************************************)
\* what a line adds to the stack pointer
SpChange(text) ==
    IF text \in SubLines
    THEN 0 - Only({f \in 0..MaxFrame : SubLine(f) = text})
    ELSE IF text \in AddLines
    THEN Only({f \in 0..MaxFrame : AddLine(f) = text})
    ELSE IF text = StpLine THEN 0 - 16
    ELSE IF text = LdpLine THEN 16
    ELSE 0

\* the stack pointer before each of the lines from p on, sp being its
\* value before line p
RECURSIVE SpTrace(_, _, _)
SpTrace(lines, p, sp) ==
    IF p > Len(lines) THEN <<>>
    ELSE <<sp>> \o SpTrace(lines, p + 1, sp + SpChange(lines[p]))

\* the stack pointer when each line is about to execute, 0 at the entry
SpBefore(lines) == SpTrace(lines, 1, 0)

\* the ldp lines after p that read the pair where the stp at p wrote it
Restores(lines, sp, p) ==
    {q \in (p + 1)..Len(lines) : lines[q] = LdpLine /\ sp[q] = sp[p] - 16}
\* the first of them
Restore(lines, sp, p) == Nth(Restores(lines, sp, p), 1)
Saves(lines) == {p \in 1..Len(lines) : lines[p] = StpLine}
Loads(lines) == {q \in 1..Len(lines) : lines[q] = LdpLine}

\* C22: in the block emitted for a function, every line that writes the
\* stack pointer moves it by a multiple of 16 and none raises it above its
\* value at entry; every `stp x29, x30, [sp, #-16]!` has a later `ldp x29,
\* x30, [sp], #16` that reads the pair where it was written, between the
\* two the stack pointer stays at or below that place, the pairs in
\* between are restored in between, and every ldp restores one stp; at
\* every `bl` the stack pointer is the entry value minus a multiple of 16,
\* and the block has one `ret`, at which the stack pointer is the entry
\* value.
C22_StackBalance ==
    HasBlock =>
      \A sp \in {SpBefore(Block)} :
        /\ \A p \in 1..Len(Block) :
              /\ p > 1 => (sp[p] - sp[p - 1]) % 16 = 0
              /\ sp[p] <= 0
              /\ Block[p] \in BlLines => sp[p] % 16 = 0 /\ sp[p] <= 0
              /\ Block[p] = RetLine => sp[p] = 0 /\ p = Len(Block) - 1
        /\ Block[Len(Block) - 1] = RetLine
        /\ \A p \in Saves(Block) :
              /\ Restores(Block, sp, p) # {}
              /\ \A q \in {Restore(Block, sp, p)} :
                    /\ \A r \in (p + 1)..q : sp[r] <= sp[p] - 16
                    /\ \A r \in Saves(Block) :
                          p < r /\ r < q => Restore(Block, sp, r) < q
        /\ {Restore(Block, sp, p) : p \in Saves(Block)} = Loads(Block)
        /\ Cardinality(Saves(Block)) = Cardinality(Loads(Block))

\* a function with a frame whose body holds a call in the argument of a
\* call: the inner pair is saved 32 below the frame and restored before
\* the outer one, and the frame is released before the ret
C22_Witness ==
    /\ HasBlock
    /\ LastFunc.params # <<>>
    /\ \E sp \in {SpBefore(Block)} :
          /\ \E p \in Saves(Block), r \in Saves(Block) :
                /\ p < r
                /\ Restore(Block, sp, r) < Restore(Block, sp, p)
                /\ sp[p] = 0 - FrameOf(Len(LastFunc.params))
                /\ sp[r + 1] = sp[p] - 32
          /\ sp[Len(Block) - 1] = 0
    /\ Block[Len(Block) - 2] = AddLine(FrameOf(Len(LastFunc.params)))

(***************************************************************************)
(* C23.  The loops of the parser, one iteration at a time: the parser is   *)
(* put at a place of the tokens and the body of the loop is run once.      *)
(***************************************************************************)
ParserAt(i) == [tokens |-> tokens, index |-> i]
Cursors == 0..Len(tokens)

\* the call panicked, or took at least one token
Advanced(i, r) == r.panic # "" \/ r.p.index > i

\* the loop of Parser::parse
TopIteration(i) ==
    IF ~IsSome(peek(ParserAt(i))) THEN TRUE
    ELSE IF ~is_data_type(Unwrap(peek(ParserAt(i)))) THEN TRUE
    ELSE \A r \in {parse_ext_decl(ParserAt(i))} : Advanced(i, r)

\* the loop of parse_compound_stmt: parse_stmt returned None and the loop
\* is left, or a statement was parsed
StmtIteration(i) ==
    \A r \in {parse_stmt(ParserAt(i))} :
        /\ r.p.index >= i
        /\ \/ Advanced(i, r)
           \/ r.v = None /\ r.p.index = i

\* the loops of parse_parameters and parse_arguments: left unless a comma
\* is peeked
ParamIteration(i) ==
    is_peek_tok(ParserAt(i), Comma) =>
        \A r \in {parse_parameter(consume_any(ParserAt(i)))} : Advanced(i, r)
ArgIteration(i) ==
    is_peek_tok(ParserAt(i), Comma) =>
        \A r \in {parse_expr(consume_any(ParserAt(i)))} :
            /\ Advanced(i, r)
            /\ r.p.index >= i

ParseEnded == ps_pc \in {"returned", "panicked"}

\* C23: on every token sequence parse ends, having returned the AST or
\* panicked with a message and no AST; the cursor never decreases; an
\* iteration of the top-level loop, of the statement loop, of the
\* parameter loop and of the argument loop, started at any place of the
\* tokens, takes at least one token, panics or leaves its loop; the
\* declarations parsed never outnumber the tokens taken, and parse returns
\* only with the cursor at the end of the tokens.
C23_ParserProgress ==
    /\ [](/\ \A i \in Cursors :
                /\ TopIteration(i)
                /\ StmtIteration(i)
                /\ ParamIteration(i)
                /\ ArgIteration(i)
          /\ ps_pc = "iter" => index <= Len(tokens) /\ Len(ext_decls) <= index
          /\ ps_pc = "returned" => index = Len(tokens) /\ panic = ""
          /\ ps_pc = "panicked" => panic # "" /\ ext_decls = <<>>)
    /\ [][/\ index' >= index
          /\ ps_pc = "iter" /\ ps_pc' = "iter" => index' > index
          /\ ParseEnded => UNCHANGED <<ps_pc, index, ext_decls>>]_vars
    /\ <>ParseEnded

\* `int g; int h = f(1); int f(int x, int y) { return f(y, h()); }`: three
\* iterations of the top-level loop took the 32 tokens; at the comma of
\* the parameters an iteration took `, int y`, at the comma of the
\* arguments `, h()`, at `return` the statement loop took the statement
\* and at `}` it was left
C23_Witness ==
    /\ ps_pc = "returned"
    /\ Len(tokens) = 32
    /\ index = 32
    /\ Len(ext_decls) = 3
    /\ tokens[17].tok = Comma
    /\ parse_parameter(consume_any(ParserAt(16))).p.index = 19
    /\ tokens[26].tok = Comma
    /\ parse_expr(consume_any(ParserAt(25))).p.index = 29
    /\ parse_stmt(ParserAt(21)).p.index = 31
    /\ parse_stmt(ParserAt(31)) = Ok(ParserAt(31), None)

=============================================================================
